---- MODULE Spec2Model ----
(***************************************************************************)
(* Job-to-candidate compatibility engine (src/job_search/job_matcher.py).  *)
(*                                                                         *)
(* Text is a sequence of one-character strings, so that substring search,  *)
(* word boundaries, lower-casing and the years-of-experience regular       *)
(* expressions are computed character by character as the code does.       *)
(* A Python value that may be None is a record [type, val]; a dict key     *)
(* that is absent is a key outside the DOMAIN of the dict.  Scores that    *)
(* the code rounds to two decimals are integers counted in hundredths      *)
(* (87.5 is 8750); unrounded scores are exact fractions [num, den].        *)
(***************************************************************************)
EXTENDS Integers, Sequences, FiniteSets, TLC

(***************************************************************************)
(* Python values                                                           *)
(***************************************************************************)
None == [type |-> "NoneType", val |-> <<>>]

Str(s) == [type |-> "str", val |-> s]

List(l) == [type |-> "list", val |-> l]

Dict(d) == [type |-> "dict", val |-> d]

PyInt(n) == [type |-> "int", val |-> n]

PyBool(b) == [type |-> "bool", val |-> b]

Raised(e) == [type |-> "exception", val |-> e]

IsRaised(v) == v.type = "exception"

\* bool(v) for the value types a job record holds
Truthy(v) ==
    CASE v.type = "NoneType" -> FALSE
      [] v.type = "str" -> v.val # <<>>
      [] v.type = "list" -> v.val # <<>>
      [] v.type = "dict" -> DOMAIN v.val # {}
      [] v.type = "int" -> v.val # 0
      [] v.type = "bool" -> v.val

\* d.get(k) on a dict d (a function on its keys)
Get(d, k) == IF k \in DOMAIN d THEN d[k] ELSE None

\* d.get(k, default)
GetOr(d, k, default) == IF k \in DOMAIN d THEN d[k] ELSE default

(***************************************************************************)
(* Characters and strings                                                  *)
(***************************************************************************)
LowerOf ==
    [A |-> "a", B |-> "b", C |-> "c", D |-> "d", E |-> "e", F |-> "f",
     G |-> "g", H |-> "h", I |-> "i", J |-> "j", K |-> "k", L |-> "l",
     M |-> "m", N |-> "n", O |-> "o", P |-> "p", Q |-> "q", R |-> "r",
     S |-> "s", T |-> "t", U |-> "u", V |-> "v", W |-> "w", X |-> "x",
     Y |-> "y", Z |-> "z"]

DigitValue ==
    ("0" :> 0) @@ ("1" :> 1) @@ ("2" :> 2) @@ ("3" :> 3) @@ ("4" :> 4) @@
    ("5" :> 5) @@ ("6" :> 6) @@ ("7" :> 7) @@ ("8" :> 8) @@ ("9" :> 9)

LowerLetters == {LowerOf[u] : u \in DOMAIN LowerOf}

IsDigit(c) == c \in DOMAIN DigitValue

\* \s of the re module (ASCII whitespace)
IsSpace(c) == c \in {" ", "\t", "\n", "\r"}

\* \w of the re module
IsWordChar(c) == c \in LowerLetters \/ c \in DOMAIN LowerOf \/ IsDigit(c) \/ c = "_"

LowerChar(c) == IF c \in DOMAIN LowerOf THEN LowerOf[c] ELSE c

\* str.lower()
Lower(s) == [i \in 1..Len(s) |-> LowerChar(s[i])]

\* s[i:i+len(w)] == w
StartsWithAt(s, i, w) ==
    /\ i + Len(w) - 1 <= Len(s)
    /\ \A k \in 1..Len(w) : s[i + k - 1] = w[k]

\* the Python test  w in s
Contains(s, w) == \E i \in 1..(Len(s) - Len(w) + 1) : StartsWithAt(s, i, w)

\* \b of the re module just before s[i] (i = Len(s)+1: at the end of s)
WordBoundaryAt(s, i) ==
    LET before == i > 1 /\ IsWordChar(s[i - 1])
        after == i <= Len(s) /\ IsWordChar(s[i])
    IN  before # after

\* re.search(r'\b' + re.escape(w) + r'\b', s, re.IGNORECASE) for a lower-case
\* word w, given t = s.lower(): ignoring case is matching on the lower-cased
\* text, and \b falls at the same places in s and in t
SearchWord(t, w) ==
    \E i \in 1..(Len(t) - Len(w) + 1) :
        /\ StartsWithAt(t, i, w)
        /\ WordBoundaryAt(t, i)
        /\ WordBoundaryAt(t, i + Len(w))

\* int(digits)
RECURSIVE ParseInt(_)
ParseInt(ds) ==
    IF ds = <<>> THEN 0
    ELSE 10 * ParseInt(SubSeq(ds, 1, Len(ds) - 1)) + DigitValue[ds[Len(ds)]]

\* s.split(sep) for a one-character separator
RECURSIVE Split(_, _)
Split(s, sep) ==
    IF \A i \in 1..Len(s) : s[i] # sep THEN <<s>>
    ELSE LET i == CHOOSE j \in 1..Len(s) :
                    s[j] = sep /\ \A k \in 1..(j - 1) : s[k] # sep
         IN  <<SubSeq(s, 1, i - 1)>> \o Split(SubSeq(s, i + 1, Len(s)), sep)

(***************************************************************************)
(* Skill extractor                                                         *)
(***************************************************************************)
tech_keywords == <<
    \* Programming languages
    <<"p","y","t","h","o","n">>,
    <<"j","a","v","a">>,
    <<"j","a","v","a","s","c","r","i","p","t">>,
    <<"t","y","p","e","s","c","r","i","p","t">>,
    <<"r","e","a","c","t">>,
    <<"n","o","d","e",".","j","s">>,
    <<"n","o","d","e","j","s">>,
    <<"s","w","i","f","t">>,
    <<"o","b","j","e","c","t","i","v","e","-","c">>,
    <<"k","o","t","l","i","n">>,
    <<"g","o","l","a","n","g">>,
    <<"g","o">>,
    <<"c","#">>,
    <<"p","h","p">>,
    <<"r","u","s","t">>,
    <<"r","u","b","y">>,
    <<"p","e","r","l">>,
    <<"s","c","a","l","a">>,
    <<"r">>,
    <<"m","a","t","l","a","b">>,
    \* Cloud & Infrastructure
    <<"a","w","s">>,
    <<"a","z","u","r","e">>,
    <<"g","c","p">>,
    <<"d","o","c","k","e","r">>,
    <<"k","u","b","e","r","n","e","t","e","s">>,
    <<"t","e","r","r","a","f","o","r","m">>,
    <<"c","i","/","c","d">>,
    <<"j","e","n","k","i","n","s">>,
    <<"a","n","s","i","b","l","e">>,
    <<"p","u","p","p","e","t">>,
    <<"c","h","e","f">>,
    <<"v","a","g","r","a","n","t">>,
    \* Databases
    <<"s","q","l">>,
    <<"m","o","n","g","o","d","b">>,
    <<"p","o","s","t","g","r","e","s","q","l">>,
    <<"m","y","s","q","l">>,
    <<"r","e","d","i","s">>,
    <<"c","a","s","s","a","n","d","r","a">>,
    <<"d","y","n","a","m","o","d","b">>,
    <<"o","r","a","c","l","e">>,
    <<"s","q","l","i","t","e">>,
    <<"e","l","a","s","t","i","c","s","e","a","r","c","h">>,
    \* APIs & Services
    <<"r","e","s","t","f","u","l">>,
    <<"a","p","i">>,
    <<"g","r","a","p","h","q","l">>,
    <<"m","i","c","r","o","s","e","r","v","i","c","e","s">>,
    <<"s","o","a","p">>,
    <<"g","r","p","c">>,
    \* ML/AI
    <<"m","a","c","h","i","n","e"," ","l","e","a","r","n","i","n","g">>,
    <<"m","l">>,
    <<"a","i">>,
    <<"t","e","n","s","o","r","f","l","o","w">>,
    <<"p","y","t","o","r","c","h">>,
    <<"k","e","r","a","s">>,
    <<"d","e","e","p"," ","l","e","a","r","n","i","n","g">>,
    <<"n","e","u","r","a","l"," ","n","e","t","w","o","r","k","s">>,
    <<"n","l","p">>,
    <<"c","o","m","p","u","t","e","r"," ","v","i","s","i","o","n">>,
    \* Mobile & Web
    <<"i","o","s">>,
    <<"a","n","d","r","o","i","d">>,
    <<"m","o","b","i","l","e">>,
    <<"w","e","b">>,
    <<"f","r","o","n","t","e","n","d">>,
    <<"b","a","c","k","e","n","d">>,
    <<"f","u","l","l"," ","s","t","a","c","k">>,
    <<"h","t","m","l">>,
    <<"c","s","s">>,
    <<"a","n","g","u","l","a","r">>,
    <<"v","u","e">>,
    <<"n","e","x","t",".","j","s">>,
    <<"s","v","e","l","t","e">>,
    \* Methodologies
    <<"a","g","i","l","e">>,
    <<"s","c","r","u","m">>,
    <<"k","a","n","b","a","n">>,
    <<"d","e","v","o","p","s">>,
    <<"g","i","t">>,
    <<"g","i","t","h","u","b">>,
    <<"g","i","t","l","a","b">>,
    \* IDEs & Tools
    <<"x","c","o","d","e">>,
    <<"a","n","d","r","o","i","d"," ","s","t","u","d","i","o">>,
    <<"i","d","e">>,
    <<"v","i","s","u","a","l"," ","s","t","u","d","i","o">>,
    <<"e","c","l","i","p","s","e">>,
    \* Operating Systems
    <<"l","i","n","u","x">>,
    <<"u","n","i","x">>,
    <<"w","i","n","d","o","w","s">>,
    <<"m","a","c","o","s">>,
    \* Data & Analytics
    <<"d","a","t","a"," ","e","n","g","i","n","e","e","r","i","n","g">>,
    <<"e","t","l">>,
    <<"s","p","a","r","k">>,
    <<"h","a","d","o","o","p">>,
    <<"k","a","f","k","a">>,
    <<"s","n","o","w","f","l","a","k","e">>,
    <<"c","l","i","c","k","h","o","u","s","e">>,
    <<"d","a","t","a"," ","p","i","p","e","l","i","n","e">>,
    <<"a","i","r","f","l","o","w">>,
    \* Security & Networking
    <<"s","s","l">>,
    <<"t","l","s">>,
    <<"o","p","e","n","s","s","l">>,
    <<"c","r","y","p","t","o","g","r","a","p","h","y">>,
    <<"s","e","c","u","r","i","t","y">>,
    <<"n","e","t","w","o","r","k"," ","p","r","o","g","r","a","m","m","i","n","g">>,
    <<"n","e","t","w","o","r","k","i","n","g">>,
    <<"t","c","p","/","i","p">>,
    <<"h","t","t","p">>,
    <<"h","t","t","p","s">>,
    \* Frameworks
    <<"s","p","r","i","n","g">>,
    <<"d","j","a","n","g","o">>,
    <<"f","l","a","s","k">>,
    <<"e","x","p","r","e","s","s">>,
    <<"n","e","s","t","j","s">>,
    <<"f","a","s","t","a","p","i">>,
    <<"l","a","r","a","v","e","l">>,
    <<"r","a","i","l","s">>,
    <<"a","s","p",".","n","e","t">>,
    \* Servers & Web
    <<"n","g","i","n","x">>,
    <<"a","p","a","c","h","e">>,
    <<"t","o","m","c","a","t">>,
    <<"i","i","s">>
    >>

Qualifications == <<"Q","u","a","l","i","f","i","c","a","t","i","o","n","s">>

\* text followed by more, or the exception that building either raised
AppendText(text, more) ==
    IF IsRaised(text) THEN text
    ELSE IF IsRaised(more) THEN more
    ELSE Str(text.val \o more.val)

\* item + " " (item.lower() + " " when lowered); a str method on None raises
ItemText(item, lowered) ==
    IF item.type = "NoneType" THEN Raised("AttributeError")
    ELSE Str((IF lowered THEN Lower(item.val) ELSE item.val) \o <<" ">>)

\* the inner loop over highlight.get("items", []); iterating None raises
RECURSIVE ItemsText(_, _)
ItemsText(items, lowered) ==
    IF items.type = "NoneType" THEN Raised("TypeError")
    ELSE IF items.val = <<>> THEN Str(<<>>)
    ELSE AppendText(ItemText(Head(items.val), lowered),
                    ItemsText(List(Tail(items.val)), lowered))

\* seeded fault: the items of every highlight are read, whatever its title
HighlightTextAnyTitle(highlight, lowered) ==
    IF highlight.type = "NoneType" THEN Raised("AttributeError")
    ELSE ItemsText(GetOr(highlight.val, "items", List(<<>>)), lowered)

\* one pass of the loop over job["job_highlights"]: the items of a highlight
\* whose title is exactly "Qualifications"; .get on a null highlight raises
HighlightText(highlight, lowered) ==
    IF highlight.type = "NoneType" THEN Raised("AttributeError")
    ELSE IF Get(highlight.val, "title") = Str(Qualifications)
    THEN ItemsText(GetOr(highlight.val, "items", List(<<>>)), lowered)
    ELSE Str(<<>>)

RECURSIVE HighlightsText(_, _)
HighlightsText(highlights, lowered) ==
    IF highlights = <<>> THEN Str(<<>>)
    ELSE AppendText(HighlightText(Head(highlights), lowered),
                    HighlightsText(Tail(highlights), lowered))

\* text_content of extract_skills_from_job: title, description and
\* Qualifications items, each lower-cased and followed by a space
SkillsTextContent(job) ==
    LET title == IF Truthy(Get(job, "title"))
                 THEN Lower(job.title.val) \o <<" ">> ELSE <<>>
        description == IF Truthy(Get(job, "description"))
                       THEN Lower(job.description.val) \o <<" ">> ELSE <<>>
        highlights == IF Truthy(Get(job, "job_highlights"))
                      THEN HighlightsText(job.job_highlights.val, TRUE)
                      ELSE Str(<<>>)
    IN  AppendText(Str(title \o description), highlights)

Cpp == <<"c","+","+">>

CppTerms == {Cpp, <<"c","p","p">>,
             <<"c"," ","p","l","u","s"," ","p","l","u","s">>,
             <<"c","p","l","u","s","p","l","u","s">>}

\* the special handling of C++ and the loop over tech_keywords, on
\* text_lower = text_content.lower()
SkillsIn(text_lower) ==
    (IF \E term \in CppTerms : Contains(text_lower, term) THEN {Cpp} ELSE {})
    \cup {tech_keywords[n] : n \in
             {m \in DOMAIN tech_keywords :
                 /\ tech_keywords[m] # Cpp
                 /\ SearchWord(text_lower, tech_keywords[m])}}

\* the set of skills found in text_content, unless building it raised
SkillsOfText(text_content) ==
    IF IsRaised(text_content) THEN text_content
    ELSE [type |-> "set", val |-> SkillsIn(Lower(text_content.val))]

\* the set of skills, or the exception the extraction raises
extract_skills_from_job(job) == SkillsOfText(SkillsTextContent(job))

(***************************************************************************)
(* Experience parser                                                       *)
(*                                                                         *)
(* The five years_patterns are matched on the lower-cased text             *)
(* (re.IGNORECASE).  A pattern piece maps the set P of positions reached   *)
(* so far to the set of positions reachable after it, which covers every   *)
(* way the re module can backtrack through the optional pieces.  (\d+)     *)
(* takes the whole run of digits: no piece that follows it can start with  *)
(* a digit, so giving digits back never helps a match.                     *)
(***************************************************************************)
RECURSIVE DigitsEnd(_, _)
DigitsEnd(s, i) ==
    IF i <= Len(s) /\ IsDigit(s[i]) THEN DigitsEnd(s, i + 1) ELSE i

\* c?
OptChar(s, P, c) == P \cup {p + 1 : p \in {q \in P : q <= Len(s) /\ s[q] = c}}

\* \s*
Spaces(s, P) ==
    {q \in 1..(Len(s) + 1) :
        \E p \in P : p <= q /\ \A k \in p..(q - 1) : IsSpace(s[k])}

\* a literal word
Literal(s, P, w) == {p + Len(w) : p \in {q \in P : StartsWithAt(s, q, w)}}

\* (?:w1|w2|...)
AnyOf(s, P, words) == UNION {Literal(s, P, w) : w \in words}

\* years?
YearsWord(s, P) ==
    LET year == Literal(s, P, <<"y","e","a","r">>)
    IN  OptChar(s, year, "s")

\* (?:of\s*)?
OptOf(s, P) == P \cup Spaces(s, Literal(s, P, <<"o","f">>))

\* positions in P where a number starts
NumberStarts(s, P) == {p \in P : p <= Len(s) /\ IsDigit(s[p])}

ExperienceWords ==
    {<<"e","x","p","e","r","i","e","n","c","e">>,
     <<"p","r","o","f","e","s","s","i","o","n","a","l">>,
     <<"s","o","f","t","w","a","r","e">>,
     <<"d","e","v","e","l","o","p","m","e","n","t">>,
     <<"e","n","g","i","n","e","e","r","i","n","g">>}

RelevantWords ==
    {<<"r","e","l","e","v","a","n","t">>,
     <<"r","e","l","a","t","i","v","e">>,
     <<"s","o","f","t","w","a","r","e">>,
     <<"d","e","v","e","l","o","p","m","e","n","t">>,
     <<"e","n","g","i","n","e","e","r","i","n","g">>}

ExperienceWord == {<<"e","x","p","e","r","i","e","n","c","e">>}

NoMatch == [end |-> 0, groups |-> <<>>]

\* a match object: where the match ends and the values of its groups
MatchOf(ends, groups) ==
    IF ends = {} THEN NoMatch
    ELSE [end |-> CHOOSE e \in ends : \A f \in ends : f <= e, groups |-> groups]

\* (\d+)\+?\s*years?\s*(?:of\s*)?(?:experience|professional|software|development|engineering)
Pattern1At(s, i) ==
    LET d == DigitsEnd(s, i)
    IN  IF d = i THEN NoMatch
        ELSE MatchOf(AnyOf(s, OptOf(s, Spaces(s, YearsWord(s,
                        Spaces(s, OptChar(s, {d}, "+"))))), ExperienceWords),
                     <<ParseInt(SubSeq(s, i, d - 1))>>)

\* (\d+)<sep>(\d+)<plus>?\s*years?\s*(?:of\s*)?<words>, the shape of the
\* three range patterns; sep is \s*-\s* or \s*to\s*
RangeAt(s, i, sep, plus, words) ==
    LET d == DigitsEnd(s, i)
        starts == IF d = i THEN {}
                  ELSE NumberStarts(s, Spaces(s, Literal(s, Spaces(s, {d}), sep)))
    IN  IF starts = {} THEN NoMatch
        ELSE LET p == CHOOSE q \in starts : TRUE
                 e == DigitsEnd(s, p)
                 after == IF plus THEN OptChar(s, {e}, "+") ELSE {e}
             IN  MatchOf(AnyOf(s, OptOf(s, Spaces(s, YearsWord(s,
                                Spaces(s, after)))), words),
                         <<ParseInt(SubSeq(s, i, d - 1)),
                           ParseInt(SubSeq(s, p, e - 1))>>)

\* (\d+)\s*-\s*(\d+)\s*years?\s*(?:of\s*)?(?:experience|professional|software|development|engineering)
Pattern2At(s, i) == RangeAt(s, i, <<"-">>, FALSE, ExperienceWords)

\* (\d+)\s*to\s*(\d+)\s*years?\s*(?:of\s*)?(?:experience|professional|software|development|engineering)
Pattern3At(s, i) == RangeAt(s, i, <<"t","o">>, FALSE, ExperienceWords)

\* (\d+)\+?\s*years?\s*(?:relevant|relative|software|development|engineering)\s*experience
Pattern4At(s, i) ==
    LET d == DigitsEnd(s, i)
    IN  IF d = i THEN NoMatch
        ELSE MatchOf(AnyOf(s, Spaces(s, AnyOf(s, Spaces(s, YearsWord(s,
                        Spaces(s, OptChar(s, {d}, "+")))), RelevantWords)),
                        ExperienceWord),
                     <<ParseInt(SubSeq(s, i, d - 1))>>)

\* (\d+)\s*-\s*(\d+)\+?\s*years?\s*(?:of\s*)?experience
Pattern5At(s, i) == RangeAt(s, i, <<"-">>, TRUE, ExperienceWord)

years_patterns == <<1, 2, 3, 4, 5>>

PatternAt(n, s, i) ==
    CASE n = 1 -> Pattern1At(s, i)
      [] n = 2 -> Pattern2At(s, i)
      [] n = 3 -> Pattern3At(s, i)
      [] n = 4 -> Pattern4At(s, i)
      [] n = 5 -> Pattern5At(s, i)

\* re.finditer(pattern, text, re.IGNORECASE): the groups of the
\* non-overlapping matches, leftmost first, searching from position i
RECURSIVE FindIter(_, _, _)
\* the search goes on after the match m found at i, or at i + 1 if none
FindNext(n, s, i, m) ==
    IF m = NoMatch THEN FindIter(n, s, i + 1)
    ELSE <<m.groups>> \o FindIter(n, s, m.end)

FindIter(n, s, i) ==
    IF i > Len(s) THEN <<>>
    ELSE IF ~IsDigit(s[i]) THEN FindIter(n, s, i + 1)
    ELSE FindNext(n, s, i, PatternAt(n, s, i))

\* the matches of all patterns, in the order the two loops visit them
RECURSIVE AllMatches(_, _)
AllMatches(patterns, s) ==
    IF patterns = <<>> THEN <<>>
    ELSE FindIter(Head(patterns), s, 1) \o AllMatches(Tail(patterns), s)

\* seeded fault: a tracker that holds a value is never replaced
UpdateTrackersFirstWins(t, groups) ==
    LET min_val == groups[1]
        max_val == IF Len(groups) = 1 THEN groups[1] ELSE groups[2]
    IN  [min_years |-> IF t.min_years = None THEN PyInt(min_val) ELSE t.min_years,
         max_years |-> IF t.max_years = None THEN PyInt(max_val) ELSE t.max_years]

\* one pass of the loop body over a match: the running min_years/max_years
UpdateTrackers(t, groups) ==
    LET min_val == groups[1]
        max_val == IF Len(groups) = 1 THEN groups[1] ELSE groups[2]
    IN  [min_years |-> IF t.min_years = None \/ min_val < t.min_years.val
                       THEN PyInt(min_val) ELSE t.min_years,
         max_years |-> IF t.max_years = None \/ max_val > t.max_years.val
                       THEN PyInt(max_val) ELSE t.max_years]

RECURSIVE Trackers(_, _)
Trackers(t, matches) ==
    IF matches = <<>> THEN t
    ELSE Trackers(UpdateTrackers(t, Head(matches)), Tail(matches))

JuniorWords ==
    {<<"j","u","n","i","o","r">>,
     <<"e","n","t","r","y">>,
     <<"a","s","s","o","c","i","a","t","e">>,
     <<"i","n","t","e","r","n">>}

SeniorWords ==
    {<<"s","e","n","i","o","r">>,
     <<"s","t","a","f","f">>,
     <<"p","r","i","n","c","i","p","a","l">>,
     <<"l","e","a","d">>}

\* level from min_years alone
YearsLevel(min_years) ==
    IF min_years # None /\ min_years.val # 0
    THEN IF min_years.val <= 2 THEN "junior"
         ELSE IF min_years.val >= 8 THEN "senior"
         ELSE IF min_years.val >= 5 THEN "senior"
         ELSE "mid"
    ELSE "mid"

\* seeded fault: the senior words are tested before the junior words
KeywordLevelSeniorFirst(text_lower, level) ==
    IF \E word \in SeniorWords : Contains(text_lower, word) THEN "senior"
    ELSE IF \E word \in JuniorWords : Contains(text_lower, word) THEN "junior"
    ELSE level

\* the explicit level mentions override the level from years
KeywordLevel(text_lower, level) ==
    IF \E word \in JuniorWords : Contains(text_lower, word) THEN "junior"
    ELSE IF \E word \in SeniorWords : Contains(text_lower, word) THEN "senior"
    ELSE level

\* text_content of extract_experience_requirement: description and
\* Qualifications items, each followed by a space, case kept
ExperienceTextContent(job) ==
    LET description == IF Truthy(Get(job, "description"))
                       THEN job.description.val \o <<" ">> ELSE <<>>
        highlights == IF Truthy(Get(job, "job_highlights"))
                      THEN HighlightsText(job.job_highlights.val, FALSE)
                      ELSE Str(<<>>)
    IN  AppendText(Str(description), highlights)

\* the returned dict, from the trackers after the loops and text_lower
RequirementOf(t, text_lower) ==
    Dict([min_years |-> t.min_years,
          max_years |-> t.max_years,
          level |-> KeywordLevel(text_lower, YearsLevel(t.min_years))])

\* the patterns are matched ignoring case, that is on the lower-cased text
RequirementIn(text_lower) ==
    RequirementOf(Trackers([min_years |-> None, max_years |-> None],
                           AllMatches(years_patterns, text_lower)),
                  text_lower)

RequirementOfText(text_content) ==
    IF IsRaised(text_content) THEN text_content
    ELSE RequirementIn(Lower(text_content.val))

\* the dict {min_years, max_years, level}, or the exception raised
extract_experience_requirement(job) ==
    RequirementOfText(ExperienceTextContent(job))

(***************************************************************************)
(* Compatibility scorer                                                    *)
(***************************************************************************)
\* exact fractions for the float arithmetic of the scorer
RECURSIVE GCD(_, _)
GCD(a, b) == IF b = 0 THEN a ELSE GCD(b, a % b)

\* n/d in lowest terms
Frac(n, d) == LET g == GCD(n, d) IN [num |-> n \div g, den |-> d \div g]

FracAdd(a, b) == Frac(a.num * b.den + b.num * a.den, a.den * b.den)

FracMul(a, b) == Frac(a.num * b.num, a.den * b.den)

FracMin(a, b) == IF a.num * b.den <= b.num * a.den THEN a ELSE b

\* round(x, 2) of a non-negative x, in hundredths; a value exactly half way
\* between two hundredths goes to the even one
Round2(x) ==
    LET n == x.num * 100
        q == n \div x.den
        r == n % x.den
    IN  IF 2 * r < x.den THEN q
        ELSE IF 2 * r > x.den THEN q + 1
        ELSE IF q % 2 = 0 THEN q ELSE q + 1

\* the weights of the five sub-scores
SkillWeight == Frac(40, 100)

ExperienceWeight == Frac(25, 100)

LocationWeight == Frac(10, 100)

EducationWeight == Frac(10, 100)

AdditionalWeight == Frac(15, 100)

\* seeded fault: the candidate's skills are not intersected with the job's
MatchingSkillsAll(job_skills, user_skills) ==
    IF job_skills # {} THEN user_skills ELSE {}

\* matching_skills
MatchingSkills(job_skills, user_skills) ==
    IF job_skills # {} THEN user_skills \cap job_skills ELSE {}

\* seeded fault: the count of matching skills is not divided by the count required
SkillScoreNoDivide(job_skills, user_skills) ==
    IF job_skills # {}
    THEN Frac(Cardinality(MatchingSkills(job_skills, user_skills)) * 100, 1)
    ELSE Frac(50, 1)

\* seeded fault: no required skills scores 0 instead of the neutral 50
SkillScoreZeroNeutral(job_skills, user_skills) ==
    IF job_skills # {}
    THEN FracMin(FracMul(Frac(Cardinality(MatchingSkills(job_skills, user_skills)),
                              Cardinality(job_skills)),
                         Frac(100, 1)),
                 Frac(100, 1))
    ELSE Frac(0, 1)

\* skill_score, before rounding
SkillScore(job_skills, user_skills) ==
    IF job_skills # {}
    THEN FracMin(FracMul(Frac(Cardinality(MatchingSkills(job_skills, user_skills)),
                              Cardinality(job_skills)),
                         Frac(100, 1)),
                 Frac(100, 1))
    ELSE Frac(50, 1)

\* missing_skills
MissingSkills(job_skills, user_skills) == job_skills \ user_skills

\* the level the candidate's years map to
\* seeded fault: three years still count as junior
UserLevelThreeJunior(user_experience_years) ==
    IF user_experience_years <= 3 THEN "junior"
    ELSE IF user_experience_years <= 4 THEN "mid"
    ELSE "senior"

UserLevel(user_experience_years) ==
    IF user_experience_years <= 2 THEN "junior"
    ELSE IF user_experience_years <= 4 THEN "mid"
    ELSE IF user_experience_years <= 7 THEN "senior"
    ELSE "senior"

\* years-based matching
YearsScore(user_years, req_years) ==
    IF user_years >= req_years
    THEN IF user_years <= req_years + 2 THEN 100
         ELSE IF user_years <= req_years + 5 THEN 80
         ELSE 60
    ELSE LET diff == req_years - user_years
         IN  IF diff = 1 THEN 70
             ELSE IF diff = 2 THEN 50
             ELSE 30

\* seeded fault: the two "job senior" rows of the table are exchanged
LevelScoreSwapped(user_level, job_level) ==
    IF user_level = job_level THEN 100
    ELSE IF job_level = "junior" /\ user_level \in {"mid", "senior"} THEN 85
    ELSE IF job_level = "mid" /\ user_level = "senior" THEN 80
    ELSE IF job_level = "mid" /\ user_level = "junior" THEN 65
    ELSE IF job_level = "senior" /\ user_level = "junior" THEN 55
    ELSE IF job_level = "senior" /\ user_level = "mid" THEN 35
    ELSE 50

\* level-based matching
LevelScore(user_level, job_level) ==
    IF user_level = job_level THEN 100
    ELSE IF job_level = "junior" /\ user_level \in {"mid", "senior"} THEN 85
    ELSE IF job_level = "mid" /\ user_level = "senior" THEN 80
    ELSE IF job_level = "mid" /\ user_level = "junior" THEN 65
    ELSE IF job_level = "senior" /\ user_level = "junior" THEN 35
    ELSE IF job_level = "senior" /\ user_level = "mid" THEN 55
    ELSE 50

\* exp_score
ExperienceScore(exp_req, user_experience_years) ==
    IF Truthy(exp_req.min_years)
    THEN YearsScore(user_experience_years, exp_req.min_years.val)
    ELSE IF exp_req.level # ""
    THEN LevelScore(UserLevel(user_experience_years), exp_req.level)
    ELSE 50

Remote == <<"r","e","m","o","t","e">>

\* seeded fault: "remote" is looked for in the description only
LocationScoreRemoteInDescription(job, user_location) ==
    IF Truthy(user_location) /\ Truthy(Get(job, "location"))
    THEN LET job_loc == Lower(job.location.val)
             user_loc == Lower(user_location.val)
             cities == Split(user_loc, ",")
             description == GetOr(job, "description", Str(<<>>))
         IN  IF Contains(job_loc, user_loc) \/ Contains(user_loc, job_loc)
             THEN PyInt(100)
             ELSE IF \E n \in DOMAIN cities : Contains(job_loc, cities[n])
             THEN PyInt(70)
             ELSE IF description.type = "NoneType" THEN Raised("AttributeError")
             ELSE IF Contains(Lower(description.val), Remote) THEN PyInt(100)
             ELSE PyInt(50)
    ELSE PyInt(50)

\* seeded fault: the tokens are tested before the whole locations
LocationScoreTokensFirst(job, user_location) ==
    IF Truthy(user_location) /\ Truthy(Get(job, "location"))
    THEN LET job_loc == Lower(job.location.val)
             user_loc == Lower(user_location.val)
             cities == Split(user_loc, ",")
             description == GetOr(job, "description", Str(<<>>))
         IN  IF \E n \in DOMAIN cities : Contains(job_loc, cities[n])
             THEN PyInt(70)
             ELSE IF Contains(job_loc, user_loc) \/ Contains(user_loc, job_loc)
             THEN PyInt(100)
             ELSE IF Contains(job_loc, Remote) THEN PyInt(100)
             ELSE IF description.type = "NoneType" THEN Raised("AttributeError")
             ELSE IF Contains(Lower(description.val), Remote) THEN PyInt(100)
             ELSE PyInt(50)
    ELSE PyInt(50)

\* location_score, or the exception raised by .lower() on a null description
LocationScore(job, user_location) ==
    IF Truthy(user_location) /\ Truthy(Get(job, "location"))
    THEN LET job_loc == Lower(job.location.val)
             user_loc == Lower(user_location.val)
             cities == Split(user_loc, ",")
             description == GetOr(job, "description", Str(<<>>))
         IN  IF Contains(job_loc, user_loc) \/ Contains(user_loc, job_loc)
             THEN PyInt(100)
             ELSE IF \E n \in DOMAIN cities : Contains(job_loc, cities[n])
             THEN PyInt(70)
             ELSE IF Contains(job_loc, Remote) THEN PyInt(100)
             ELSE IF description.type = "NoneType" THEN Raised("AttributeError")
             ELSE IF Contains(Lower(description.val), Remote) THEN PyInt(100)
             ELSE PyInt(50)
    ELSE PyInt(50)

Bachelor == <<"b","a","c","h","e","l","o","r">>

Degree == <<"d","e","g","r","e","e">>

\* seeded fault: a posting that asks for no degree gets the neutral 50
EducationScoreNeutral(job) ==
    LET description == GetOr(job, "description", Str(<<>>))
    IN  IF description.type = "NoneType" THEN Raised("AttributeError")
        ELSE IF Contains(Lower(description.val), Bachelor)
                \/ Contains(Lower(description.val), Degree)
        THEN PyInt(100)
        ELSE PyInt(50)

\* education_score, or the exception raised by .lower() on a null description
EducationScore(job) ==
    LET description == GetOr(job, "description", Str(<<>>))
    IN  IF description.type = "NoneType" THEN Raised("AttributeError")
        ELSE IF Contains(Lower(description.val), Bachelor)
                \/ Contains(Lower(description.val), Degree)
        THEN PyInt(100)
        ELSE PyInt(100)

\* seeded fault: a key counts even when its value is null
AdditionalScoreKeyPresent(job) ==
    LET detected_extensions == GetOr(job, "detected_extensions", Dict(<<>>))
    IN  IF detected_extensions.type = "NoneType" THEN Raised("AttributeError")
        ELSE PyInt(50
                 + (IF "salary" \in DOMAIN detected_extensions.val THEN 10 ELSE 0)
                 + (IF "health_insurance" \in DOMAIN detected_extensions.val
                    THEN 5 ELSE 0))

\* additional_score, or the exception raised by .get on null detected_extensions
AdditionalScore(job) ==
    LET detected_extensions == GetOr(job, "detected_extensions", Dict(<<>>))
    IN  IF detected_extensions.type = "NoneType" THEN Raised("AttributeError")
        ELSE PyInt(50
                 + (IF Truthy(Get(detected_extensions.val, "salary")) THEN 10 ELSE 0)
                 + (IF Truthy(Get(detected_extensions.val, "health_insurance"))
                    THEN 5 ELSE 0))

\* seeded fault: the weights of the skill and the experience score are exchanged
TotalScoreSwapped(skill_score, exp_score, location_score, education_score, additional_score) ==
    FracAdd(FracAdd(FracAdd(FracAdd(
        FracMul(skill_score, ExperienceWeight),
        FracMul(Frac(exp_score, 1), SkillWeight)),
        FracMul(Frac(location_score, 1), LocationWeight)),
        FracMul(Frac(education_score, 1), EducationWeight)),
        FracMul(Frac(additional_score, 1), AdditionalWeight))

\* the weighted total, before rounding
TotalScore(skill_score, exp_score, location_score, education_score, additional_score) ==
    FracAdd(FracAdd(FracAdd(FracAdd(
        FracMul(skill_score, SkillWeight),
        FracMul(Frac(exp_score, 1), ExperienceWeight)),
        FracMul(Frac(location_score, 1), LocationWeight)),
        FracMul(Frac(education_score, 1), EducationWeight)),
        FracMul(Frac(additional_score, 1), AdditionalWeight))

\* the returned dict; the lists made from sets are kept as sets (their order
\* is that of set iteration)
CompatibilityDict(job_skills, user_skills, exp_req, skill_score, exp_score, location_score, education_score, additional_score) ==
    Dict([total_score |-> Round2(TotalScore(skill_score, exp_score, location_score,
                                            education_score, additional_score)),
          breakdown |-> [
              skill_match |-> Round2(skill_score),
              experience_match |-> Round2(Frac(exp_score, 1)),
              location_match |-> Round2(Frac(location_score, 1)),
              education_match |-> Round2(Frac(education_score, 1)),
              additional_factors |-> Round2(Frac(additional_score, 1))],
          matching_skills |-> MatchingSkills(job_skills, user_skills),
          missing_skills |-> MissingSkills(job_skills, user_skills),
          required_skills |-> job_skills,
          experience_requirement |-> exp_req])

\* the scores in the order the code computes them: the first exception
\* raised, or the returned dict
ScoredWith(job_skills, user_skills, exp_req, user_experience_years, location_score, education_score, additional_score) ==
    IF IsRaised(job_skills) THEN job_skills
    ELSE IF IsRaised(exp_req) THEN exp_req
    ELSE IF IsRaised(location_score) THEN location_score
    ELSE IF IsRaised(education_score) THEN education_score
    ELSE IF IsRaised(additional_score) THEN additional_score
    ELSE CompatibilityDict(job_skills.val, user_skills, exp_req.val,
                           SkillScore(job_skills.val, user_skills),
                           ExperienceScore(exp_req.val, user_experience_years),
                           location_score.val, education_score.val,
                           additional_score.val)

calculate_compatibility_score(job, user_skills, user_experience_years, user_location) ==
    ScoredWith(extract_skills_from_job(job), user_skills,
               extract_experience_requirement(job), user_experience_years,
               LocationScore(job, user_location), EducationScore(job),
               AdditionalScore(job))

(***************************************************************************)
(* Explanation generator                                                   *)
(*                                                                         *)
(* Each f-string line is a record: which template it is and the values     *)
(* the template is filled with.                                            *)
(***************************************************************************)
\* seeded fault: the slice is left out
FirstNAll(S, n) == S

\* lst[:n] of a list made from a set: n of its elements, all of them if it
\* has no more than n
FirstN(S, n) ==
    IF Cardinality(S) <= n THEN S
    ELSE CHOOSE T \in SUBSET S : Cardinality(T) = n

\* seeded fault: a score on a threshold falls into the tier below
MatchStrengthAbove(score) ==
    IF score > 8000 THEN "Strong match"
    ELSE IF score > 6000 THEN "Good match"
    ELSE IF score > 4000 THEN "Moderate match"
    ELSE "Weak match"

\* the label of the overall line
MatchStrength(score) ==
    IF score >= 8000 THEN "Strong match"
    ELSE IF score >= 6000 THEN "Good match"
    ELSE IF score >= 4000 THEN "Moderate match"
    ELSE "Weak match"

generate_match_explanation(job, compatibility) ==
    LET score == compatibility.total_score
        breakdown == compatibility.breakdown
        matching_skills == compatibility.matching_skills
        missing_skills == compatibility.missing_skills
        required_skills == GetOr(compatibility, "required_skills", {})
        total_required == IF required_skills # {} THEN Cardinality(required_skills)
                          ELSE Cardinality(matching_skills) + Cardinality(missing_skills)
        exp_req == compatibility.experience_requirement
        user_years == GetOr(compatibility, "user_experience_years", 0)
        user_level == IF user_years <= 2 THEN "junior"
                      ELSE IF user_years <= 4 THEN "mid"
                      ELSE "senior"
        overall == <<[line |-> "overall", label |-> MatchStrength(score), score |-> score]>>
        skills == IF total_required > 0
                  THEN <<[line |-> "skills", have |-> Cardinality(matching_skills),
                          required |-> total_required,
                          named |-> FirstN(matching_skills, 5)]>>
                  ELSE <<>>
        missing == IF missing_skills # {}
                   THEN <<[line |-> "missing", named |-> FirstN(missing_skills, 3)]>>
                   ELSE <<>>
        experience == IF Truthy(exp_req.min_years)
                      THEN <<[line |-> "experience", min_years |-> exp_req.min_years.val,
                              level |-> exp_req.level,
                              match |-> breakdown.experience_match]>>
                      ELSE IF exp_req.level # ""
                      THEN <<[line |-> "experience", level |-> exp_req.level,
                              user_level |-> user_level, user_years |-> user_years,
                              match |-> breakdown.experience_match]>>
                      ELSE <<>>
        location == IF breakdown.location_match >= 7000
                    THEN <<[line |-> "location",
                            location |-> GetOr(job, "location", Str(<<"N","/","A">>))]>>
                    ELSE <<>>
    IN  overall \o skills \o missing \o experience \o location

(***************************************************************************)
(* Batch ranker                                                            *)
(***************************************************************************)
\* job.get("detected_extensions", {}).get(key)
ExtensionGet(job, key) ==
    LET detected_extensions == GetOr(job, "detected_extensions", Dict(<<>>))
    IN  IF detected_extensions.type = "NoneType" THEN Raised("AttributeError")
        ELSE Get(detected_extensions.val, key)

\* job.get("apply_options", [{}])[0].get("link") if job.get("apply_options") else None
ApplyLink(job) ==
    IF Truthy(Get(job, "apply_options"))
    THEN LET first == job.apply_options.val[1]
         IN  IF first.type = "NoneType" THEN Raised("AttributeError")
             ELSE Get(first.val, "link")
    ELSE None

Ellipsis == <<".", ".", ".">>

\* job.get("description", "")[:200] + "..." if job.get("description") else None
DescriptionPreview(job) ==
    IF Truthy(Get(job, "description"))
    THEN LET d == job.description.val
         IN  Str(SubSeq(d, 1, IF Len(d) < 200 THEN Len(d) ELSE 200) \o Ellipsis)
    ELSE None

\* the matched_job dict built from the scorer's result (with
\* user_experience_years added), or the exception raised
MatchedJobOf(job, compatibility, posted_at, apply_link) ==
    IF IsRaised(posted_at) THEN posted_at
    ELSE IF IsRaised(apply_link) THEN apply_link
    ELSE Dict([
        job_id |-> Get(job, "job_id"),
        title |-> Get(job, "title"),
        company_name |-> Get(job, "company_name"),
        location |-> Get(job, "location"),
        source |-> Get(job, "via"),
        posted_at |-> posted_at,
        salary |-> ExtensionGet(job, "salary"),
        schedule_type |-> ExtensionGet(job, "schedule_type"),
        compatibility_score |-> compatibility.total_score,
        score_breakdown |-> compatibility.breakdown,
        match_explanations |-> generate_match_explanation(job, compatibility),
        matching_skills |-> compatibility.matching_skills,
        missing_skills |-> compatibility.missing_skills,
        required_skills |-> GetOr(compatibility, "required_skills", {}),
        experience_requirement |-> compatibility.experience_requirement,
        apply_link |-> apply_link,
        description_preview |-> DescriptionPreview(job)])

\* seeded fault: user_experience_years is not added to the scorer's dict
MatchedJobFromNoYears(job, scored, user_experience_years) ==
    IF IsRaised(scored) THEN scored
    ELSE MatchedJobOf(job, scored.val,
                      ExtensionGet(job, "posted_at"), ApplyLink(job))

\* the rest of the loop body once the scorer has returned
MatchedJobFrom(job, scored, user_experience_years) ==
    IF IsRaised(scored) THEN scored
    ELSE MatchedJobOf(job,
                      scored.val @@ [user_experience_years |-> user_experience_years],
                      ExtensionGet(job, "posted_at"), ApplyLink(job))

\* one pass of the loop body: the matched_job dict, or the exception raised
MatchedJob(job, user_skills, user_experience_years, user_location) ==
    MatchedJobFrom(job,
                   calculate_compatibility_score(job, user_skills,
                       user_experience_years, user_location),
                   user_experience_years)

\* seeded fault: an entry goes before the entries of equal score
SortedInsertUnstable(sorted, x) ==
    LET n == Cardinality({i \in DOMAIN sorted :
                             sorted[i].compatibility_score > x.compatibility_score})
    IN  SubSeq(sorted, 1, n) \o <<x>> \o SubSeq(sorted, n + 1, Len(sorted))

\* where list.sort(key=compatibility_score, reverse=True) puts x among the
\* already sorted: after every entry whose score is not lower (the sort is
\* stable, also with reverse=True)
SortedInsert(sorted, x) ==
    LET n == Cardinality({i \in DOMAIN sorted :
                             sorted[i].compatibility_score >= x.compatibility_score})
    IN  SubSeq(sorted, 1, n) \o <<x>> \o SubSeq(sorted, n + 1, Len(sorted))

RECURSIVE SortByScore(_)
SortByScore(matched) ==
    IF matched = <<>> THEN <<>>
    ELSE SortedInsert(SortByScore(SubSeq(matched, 1, Len(matched) - 1)),
                      matched[Len(matched)])

\* matched_jobs.append: the list with first put before rest, or the first
\* exception
Prepend(first, rest) ==
    IF IsRaised(first) THEN first
    ELSE IF IsRaised(rest) THEN rest
    ELSE List(<<first.val>> \o rest.val)

\* the for loop: the matched_job of every job in order, or the first exception
RECURSIVE MatchEach(_, _, _, _)
MatchEach(jobs, user_skills, user_experience_years, user_location) ==
    IF jobs = <<>> THEN List(<<>>)
    ELSE Prepend(MatchedJob(Head(jobs), user_skills,
                            user_experience_years, user_location),
                 MatchEach(Tail(jobs), user_skills,
                           user_experience_years, user_location))

\* matched_jobs.sort(...)
Ranked(matched_jobs) ==
    IF IsRaised(matched_jobs) THEN matched_jobs
    ELSE List(SortByScore(matched_jobs.val))

\* the ranked list, or the exception raised
match_jobs_to_user(jobs, user_skills, user_experience_years, user_location) ==
    Ranked(MatchEach(jobs, user_skills, user_experience_years, user_location))

\* seeded fault: user_experience_years is added to the posting instead of
\* to the dict the scorer returned
InputJobsAnnotated(jobs, user_experience_years) ==
    [n \in DOMAIN jobs |-> jobs[n] @@ [user_experience_years |-> PyInt(user_experience_years)]]

\* the input list once match_jobs_to_user is done: user_experience_years is
\* added to the dict the scorer returned, the entries are appended to a new
\* list and that list is the one sorted, so the input is as it was
InputJobsAfter(jobs, user_experience_years) == jobs
(***************************************************************************)
(* Inputs: job postings of the shape the search provider returns, and      *)
(* candidate profiles                                                      *)
(***************************************************************************)
\* "5+ years of Python and AWS experience, Bachelor's degree required"
DescScenario ==
    <<"5","+"," ","y","e","a","r","s"," ","o","f"," ","P","y","t","h","o","n"," ","a","n","d"," ","A","W","S"," ","e","x","p","e","r","i","e","n","c","e",","," ","B","a","c","h","e","l","o","r","'","s"," ","d","e","g","r","e","e"," ","r","e","q","u","i","r","e","d">>

\* "Senior backend engineer"
DescSenior ==
    <<"S","e","n","i","o","r"," ","b","a","c","k","e","n","d"," ","e","n","g","i","n","e","e","r">>

\* "0-2 years of experience with SQL"
DescZeroToTwo ==
    <<"0","-","2"," ","y","e","a","r","s"," ","o","f"," ","e","x","p","e","r","i","e","n","c","e"," ","w","i","t","h"," ","S","Q","L">>

\* "Python, Java, AWS, Docker, SQL, Redis, Linux"
DescSevenSkills ==
    <<"P","y","t","h","o","n",","," ","J","a","v","a",","," ","A","W","S",","," ","D","o","c","k","e","r",","," ","S","Q","L",","," ","R","e","d","i","s",","," ","L","i","n","u","x">>

\* "3+ years of experience in Java"
DescThreePlus ==
    <<"3","+"," ","y","e","a","r","s"," ","o","f"," ","e","x","p","e","r","i","e","n","c","e"," ","i","n"," ","J","a","v","a">>

\* "5-7 years experience, remote"
DescFiveToSeven ==
    <<"5","-","7"," ","y","e","a","r","s"," ","e","x","p","e","r","i","e","n","c","e",","," ","r","e","m","o","t","e">>

\* "We are hiring"
DescHiring ==
    <<"W","e"," ","a","r","e"," ","h","i","r","i","n","g">>

\* "Junior or Senior, 2 to 4 years of professional work"
DescJuniorOrSenior ==
    <<"J","u","n","i","o","r"," ","o","r"," ","S","e","n","i","o","r",","," ","2"," ","t","o"," ","4"," ","y","e","a","r","s"," ","o","f"," ","p","r","o","f","e","s","s","i","o","n","a","l"," ","w","o","r","k">>

\* "8+ years relevant experience leading teams"
DescEightRelevant ==
    <<"8","+"," ","y","e","a","r","s"," ","r","e","l","e","v","a","n","t"," ","e","x","p","e","r","i","e","n","c","e"," ","l","e","a","d","i","n","g"," ","t","e","a","m","s">>

\* "1 year of experience"
DescOneYear ==
    <<"1"," ","y","e","a","r"," ","o","f"," ","e","x","p","e","r","i","e","n","c","e">>

\* "C++ and C# developer"
DescCpp ==
    <<"C","+","+"," ","a","n","d"," ","C","#"," ","d","e","v","e","l","o","p","e","r">>

\* "Junior developer, 5+ years of experience"
DescJuniorFivePlus ==
    <<"J","u","n","i","o","r"," ","d","e","v","e","l","o","p","e","r",","," ","5","+"," ","y","e","a","r","s"," ","o","f"," ","e","x","p","e","r","i","e","n","c","e">>

\* "Senior role, 1 year of experience"
DescSeniorOneYear ==
    <<"S","e","n","i","o","r"," ","r","o","l","e",","," ","1"," ","y","e","a","r"," ","o","f"," ","e","x","p","e","r","i","e","n","c","e">>

\* "Entry level position"
DescEntryLevel ==
    <<"E","n","t","r","y"," ","l","e","v","e","l"," ","p","o","s","i","t","i","o","n">>

SoftwareEngineer == <<"S","o","f","t","w","a","r","e"," ","E","n","g","i","n","e","e","r">>

SeniorCppDeveloper == <<"S","e","n","i","o","r"," ","C","+","+"," ","D","e","v","e","l","o","p","e","r">>

Dev == <<"D","e","v">>

AustinTX == <<"A","u","s","t","i","n",","," ","T","X">>

RemoteOnly == <<"R","e","m","o","t","e">>

RemoteTX == <<"R","e","m","o","t","e",","," ","T","X">>

BostonMA == <<"B","o","s","t","o","n",","," ","M","A">>

Boston == <<"B","o","s","t","o","n">>

Salary120k == <<"$","1","2","0","k">>

Today == <<"t","o","d","a","y">>

Benefits == <<"B","e","n","e","f","i","t","s">>

ThreeYearsItem == <<"3"," ","y","e","a","r","s"," ","o","f"," ","e","x","p","e","r","i","e","n","c","e">>

DockerItem == <<"D","o","c","k","e","r">>

KubernetesItem == <<"K","u","b","e","r","n","e","t","e","s">>

SqlItem == <<"S","Q","L">>

LeadSqlItem == <<"L","e","a","d"," ","S","Q","L">>

Acme == <<"A","c","m","e">>

LinkedIn == <<"L","i","n","k","e","d","I","n">>

ApplyUrl == <<"h","t","t","p",":","/","/","x">>

IdJ1 == <<"j","1">>

IdA == <<"a">>

IdB == <<"b">>

IdC == <<"c">>

IdD == <<"d">>

IdE == <<"e">>

IdF == <<"f">>

IdG == <<"g">>

Python == <<"p","y","t","h","o","n">>

Aws == <<"a","w","s">>

Cobol == <<"c","o","b","o","l">>

Java == <<"j","a","v","a">>

Docker == <<"d","o","c","k","e","r">>

Sql == <<"s","q","l">>

Redis == <<"r","e","d","i","s">>

\* the description varies
DescriptionJobs == {
    [title |-> Str(SoftwareEngineer),
     description |-> Str(DescScenario),
     location |-> Str(AustinTX)],
    [title |-> Str(SoftwareEngineer),
     description |-> Str(DescSenior),
     location |-> Str(AustinTX)],
    [title |-> Str(SoftwareEngineer),
     description |-> Str(DescZeroToTwo),
     location |-> Str(AustinTX)],
    [title |-> Str(SoftwareEngineer),
     description |-> Str(DescSevenSkills),
     location |-> Str(AustinTX)],
    [title |-> Str(SoftwareEngineer),
     description |-> Str(DescThreePlus),
     location |-> Str(AustinTX)],
    [title |-> Str(SoftwareEngineer),
     description |-> Str(DescFiveToSeven),
     location |-> Str(AustinTX)],
    [title |-> Str(SoftwareEngineer),
     description |-> Str(DescHiring),
     location |-> Str(AustinTX)],
    [title |-> Str(SoftwareEngineer),
     description |-> Str(DescJuniorOrSenior),
     location |-> Str(AustinTX)],
    [title |-> Str(SoftwareEngineer),
     description |-> Str(DescEightRelevant),
     location |-> Str(AustinTX)],
    [title |-> Str(SoftwareEngineer),
     description |-> Str(DescOneYear),
     location |-> Str(AustinTX)],
    [title |-> Str(SoftwareEngineer),
     description |-> Str(DescCpp),
     location |-> Str(AustinTX)],
    [title |-> Str(SoftwareEngineer),
     description |-> Str(DescJuniorFivePlus),
     location |-> Str(AustinTX)],
    [title |-> Str(SoftwareEngineer),
     description |-> Str(DescSeniorOneYear),
     location |-> Str(AustinTX)],
    [title |-> Str(SoftwareEngineer),
     description |-> Str(DescEntryLevel),
     location |-> Str(AustinTX)],
    [title |-> Str(SoftwareEngineer),
     description |-> Str(<<>>),
     location |-> Str(AustinTX)],
    [title |-> Str(SoftwareEngineer),
     description |-> None,
     location |-> Str(AustinTX)],
    [title |-> Str(SoftwareEngineer),
     location |-> Str(AustinTX)],
    [description |-> Str(DescScenario)],
    [description |-> Str(DescSenior)],
    [title |-> Str(SeniorCppDeveloper),
     description |-> Str(DescHiring)]}

\* the location varies
LocationJobs == {
    [description |-> Str(DescHiring),
     location |-> Str(RemoteOnly)],
    [description |-> Str(DescHiring),
     location |-> Str(RemoteTX)],
    [description |-> Str(DescHiring),
     location |-> Str(BostonMA)],
    [description |-> Str(DescHiring),
     location |-> Str(<<>>)],
    [description |-> Str(DescHiring),
     location |-> None],
    [description |-> Str(DescFiveToSeven),
     location |-> Str(BostonMA)],
    [description |-> None,
     location |-> Str(BostonMA)]}

\* detected_extensions varies
ExtensionJobs == {
    [description |-> Str(DescHiring),
     detected_extensions |-> None],
    [description |-> Str(DescHiring),
     detected_extensions |-> Dict(<<>>)],
    [description |-> Str(DescHiring),
     detected_extensions |-> Dict([salary |-> Str(Salary120k)])],
    [description |-> Str(DescHiring),
     detected_extensions |-> Dict([health_insurance |-> PyBool(TRUE)])],
    [description |-> Str(DescHiring),
     detected_extensions |-> Dict([salary |-> Str(Salary120k), health_insurance |-> PyBool(TRUE)])],
    [description |-> Str(DescHiring),
     detected_extensions |-> Dict([salary |-> None, posted_at |-> Str(Today)])],
    [title |-> Str(Dev),
     description |-> Str(<<"P","y","t","h","o","n">>),
     location |-> Str(AustinTX),
     detected_extensions |-> Dict([salary |-> Str(Salary120k), health_insurance |-> PyBool(TRUE)])]}

\* job_highlights varies
HighlightJobs == {
    [title |-> Str(Dev),
     job_highlights |-> None],
    [title |-> Str(Dev),
     job_highlights |-> List(<<>>)],
    [title |-> Str(Dev),
     job_highlights |-> List(<<Dict([title |-> Str(Qualifications), items |-> List(<<Str(ThreeYearsItem), Str(DockerItem)>>)]), Dict([title |-> Str(Benefits), items |-> List(<<Str(KubernetesItem)>>)])>>)],
    [title |-> Str(Dev),
     job_highlights |-> List(<<Dict([items |-> List(<<Str(SqlItem)>>)]), Dict([title |-> Str(Qualifications), items |-> List(<<Str(LeadSqlItem)>>)])>>)],
    [title |-> Str(Dev),
     job_highlights |-> List(<<Dict([title |-> Str(Qualifications)])>>)],
    [title |-> Str(Dev),
     job_highlights |-> List(<<Dict([title |-> Str(Qualifications), items |-> None])>>)],
    [title |-> Str(Dev),
     job_highlights |-> List(<<Dict([title |-> Str(Qualifications), items |-> List(<<None>>)])>>)],
    [title |-> Str(Dev),
     job_highlights |-> List(<<None>>)]}

\* apply_options and the identity fields vary
ApplyJobs == {
    [job_id |-> Str(IdJ1),
     company_name |-> Str(Acme),
     via |-> Str(LinkedIn),
     description |-> Str(DescHiring),
     apply_options |-> None],
    [job_id |-> Str(IdJ1),
     company_name |-> Str(Acme),
     via |-> Str(LinkedIn),
     description |-> Str(DescHiring),
     apply_options |-> List(<<>>)],
    [job_id |-> Str(IdJ1),
     company_name |-> Str(Acme),
     via |-> Str(LinkedIn),
     description |-> Str(DescHiring),
     apply_options |-> List(<<Dict(<<>>)>>)],
    [job_id |-> Str(IdJ1),
     company_name |-> Str(Acme),
     via |-> Str(LinkedIn),
     description |-> Str(DescHiring),
     apply_options |-> List(<<Dict([link |-> Str(ApplyUrl)])>>)],
    [description |-> Str(DescHiring),
     apply_options |-> List(<<None>>)],
    [title |-> Str(Dev),
     company_name |-> Str(<<"R","e","d","i","s">>),
     via |-> Str(<<"L","i","n","u","x">>),
     location |-> Str(<<"J","a","v","a">>)]}

\* every field absent, null or empty
MissingJobs == {
    <<>>,
    [job_id |-> None,
     title |-> None,
     company_name |-> None,
     description |-> None,
     job_highlights |-> None,
     location |-> None,
     detected_extensions |-> None,
     apply_options |-> None],
    [job_id |-> Str(<<>>),
     title |-> Str(<<>>),
     company_name |-> Str(<<>>),
     description |-> Str(<<>>),
     job_highlights |-> List(<<>>),
     location |-> Str(<<>>),
     detected_extensions |-> Dict(<<>>),
     apply_options |-> List(<<>>)]}

JobPool ==
    DescriptionJobs
    \cup LocationJobs
    \cup ExtensionJobs
    \cup HighlightJobs
    \cup ApplyJobs
    \cup MissingJobs

\* the postings the batches are made of
BatchPool == {
    [job_id |-> Str(IdA),
     description |-> Str(DescHiring)],
    [job_id |-> Str(IdB),
     description |-> Str(DescHiring),
     detected_extensions |-> Dict([salary |-> Str(Salary120k)])],
    [job_id |-> Str(IdC),
     description |-> Str(DescSenior)],
    [job_id |-> Str(IdD),
     description |-> Str(DescSenior),
     location |-> Str(RemoteOnly)],
    [job_id |-> Str(IdE),
     description |-> None]}

UserSkillSets == {
    {},
    {Python},
    {Python, Aws},
    {Python, Cobol},
    {Python, Java, Aws, Docker, Sql, Redis}}

UserLocations == {None, Str(AustinTX), Str(Boston)}

\* the postings the provider or the cached response holds
PipelinePool == {
    [job_id |-> Str(IdG),
     description |-> Str(DescScenario),
     location |-> Str(RemoteOnly)],
    [job_id |-> Str(IdF),
     description |-> Str(DescSevenSkills)],
    [description |-> Str(DescHiring)],
    [job_id |-> Str(IdE),
     description |-> None],
    [job_id |-> Str(IdG),
     description |-> Str(DescHiring)]}

\* five postings of different job_id, one more than are matched
LongBatch == <<
    [job_id |-> Str(IdA),
     description |-> Str(DescHiring)],
    [job_id |-> Str(IdB),
     description |-> Str(DescHiring),
     detected_extensions |-> Dict([salary |-> Str(Salary120k)])],
    [job_id |-> Str(IdC),
     description |-> Str(DescSenior)],
    [job_id |-> Str(IdD),
     description |-> Str(DescSenior),
     location |-> Str(RemoteOnly)],
    [job_id |-> Str(IdE),
     description |-> None]>>

\* the profiles: complete, without skills or location, and empty
ProfilePool == {
    [skills |-> {Python, Aws}, experience_years |-> PyInt(6), location |-> Str(AustinTX), job_title |-> Str(Dev)],
    [skills |-> {}, experience_years |-> PyInt(1), location |-> None],
    <<>>}


(***************************************************************************)
(* Discovery pipeline (job_discovery_pipeline.py)                          *)
(***************************************************************************)
\* the location of a profile that names none
SanFranciscoCA == <<"S","a","n"," ","F","r","a","n","c","i","s","c","o",","," ","C","A">>

\* queries[:2]: at most two queries are sent
QueryLimit == 2

\* list(user_skills)[:3]: at most three skills make a query
TopSkillLimit == 3

\* jobs[:4]: at most four postings are matched
JobLimit == 4

\* l[:n]
Take(l, n) == SubSeq(l, 1, IF Len(l) < n THEN Len(l) ELSE n)

\* what list(user_skills)[:3] can be: the order of a set's elements is that
\* of its iteration, any of them
TopSkills(user_skills) ==
    LET n == IF Cardinality(user_skills) < TopSkillLimit
             THEN Cardinality(user_skills) ELSE TopSkillLimit
    IN  {l \in [1..n -> user_skills] : \A i, k \in 1..n : i # k => l[i] # l[k]}

\* the title, then the title followed by each top skill
generate_search_queries(top_skills, job_title) ==
    <<job_title>> \o [i \in DOMAIN top_skills |-> job_title \o <<" ">> \o top_skills[i]]

\* seeded fault: a posting with a job_id is kept, seen before or not
KeepUnseenOrSeen(kept, job) ==
    LET job_id == Get(job, "job_id")
    IN  IF Truthy(job_id)
        THEN [jobs |-> Append(kept.jobs, job),
              seen_job_ids |-> kept.seen_job_ids \cup {job_id}]
        ELSE kept

\* the body of the loop over fetched_jobs: a posting is kept when it has a
\* job_id not seen before
KeepUnseen(kept, job) ==
    LET job_id == Get(job, "job_id")
    IN  IF Truthy(job_id) /\ job_id \notin kept.seen_job_ids
        THEN [jobs |-> Append(kept.jobs, job),
              seen_job_ids |-> kept.seen_job_ids \cup {job_id}]
        ELSE kept

\* the loop over fetched_jobs
RECURSIVE KeepAll(_, _)
KeepAll(kept, fetched_jobs) ==
    IF fetched_jobs = <<>> THEN kept
    ELSE KeepAll(KeepUnseen(kept, Head(fetched_jobs)), Tail(fetched_jobs))

\* the loop over the queries: a fetch that raised is skipped
RECURSIVE FetchedJobs(_, _)
FetchedJobs(kept, responses) ==
    IF responses = <<>> THEN kept
    ELSE FetchedJobs(IF IsRaised(Head(responses)) THEN kept
                     ELSE KeepAll(kept, Head(responses).val),
                     Tail(responses))

\* the cached response read from the file: its jobs_results, or no posting
\* when loading it raised
CachedJobs(response) == IF IsRaised(response) THEN <<>> ELSE response.val

\* the local jobs before the limit, from what the fetches or the file gave
FoundJobs(use_api, responses) ==
    IF use_api
    THEN FetchedJobs([jobs |-> <<>>, seen_job_ids |-> {}], responses).jobs
    ELSE CachedJobs(responses[1])

\* sum(j["compatibility_score"] for j in matched_jobs), in hundredths
RECURSIVE SumOfScores(_)
SumOfScores(matched_jobs) ==
    IF matched_jobs = <<>> THEN 0
    ELSE Head(matched_jobs).compatibility_score + SumOfScores(Tail(matched_jobs))

\* seeded fault: the sum of the scores is not divided by their number
AverageScoreNoDivide(matched_jobs) ==
    IF matched_jobs # <<>> THEN Round2(Frac(SumOfScores(matched_jobs), 100)) ELSE 0

\* average_score, in hundredths
AverageScore(matched_jobs) ==
    IF matched_jobs # <<>>
    THEN Round2(Frac(SumOfScores(matched_jobs), 100 * Len(matched_jobs)))
    ELSE 0

\* len([j for j in matched_jobs if low <= j["compatibility_score"] < high])
CountBetween(matched_jobs, low, high) ==
    Len(SelectSeq(matched_jobs,
                  LAMBDA j : low <= j.compatibility_score /\ j.compatibility_score < high))

\* seeded fault: the low bucket ends at 30
SummaryLowBelow30(matched_jobs) ==
    [average_score |-> AverageScore(matched_jobs),
     high_match_count |-> CountBetween(matched_jobs, 7000, 10001),
     medium_match_count |-> CountBetween(matched_jobs, 4000, 7000),
     low_match_count |-> CountBetween(matched_jobs, 0, 3000)]

\* the summary of the returned dict
Summary(matched_jobs) ==
    [average_score |-> AverageScore(matched_jobs),
     high_match_count |-> CountBetween(matched_jobs, 7000, 10001),
     medium_match_count |-> CountBetween(matched_jobs, 4000, 7000),
     low_match_count |-> CountBetween(matched_jobs, 0, 4000)]

\* the returned dict, or the exception match_jobs_to_user raised
DiscoveryOf(user_skills, user_experience_years, user_location, job_title, jobs, matched_jobs) ==
    IF IsRaised(matched_jobs) THEN matched_jobs
    ELSE Dict([user_profile |-> [skills |-> user_skills,
                                 experience_years |-> user_experience_years,
                                 location |-> user_location,
                                 job_title |-> job_title],
               total_jobs_found |-> Len(jobs),
               matched_jobs |-> matched_jobs.val,
               summary |-> Summary(matched_jobs.val)])

\* from the limit on: the first four postings are matched and summarised
DiscoveredFrom(user_skills, user_experience_years, user_location, job_title, jobs) ==
    DiscoveryOf(user_skills, user_experience_years, user_location, job_title, jobs,
                match_jobs_to_user(jobs, user_skills, user_experience_years.val,
                                   user_location))

\* the result for a profile and the postings found
discover_and_match_jobs(user_profile, found_jobs) ==
    DiscoveredFrom(GetOr(user_profile, "skills", {}),
                   GetOr(user_profile, "experience_years", PyInt(0)),
                   GetOr(user_profile, "location", Str(SanFranciscoCA)),
                   GetOr(user_profile, "job_title", Str(SoftwareEngineer)),
                   Take(found_jobs, JobLimit))

(***************************************************************************)
(* Job service (services/job_service.py): scoring by the LLM               *)
(***************************************************************************)
NotEvaluated == <<"N","o","t"," ","e","v","a","l","u","a","t","e","d">>

NoExplanationAvailable ==
    <<"N","o"," ","e","x","p","l","a","n","a","t","i","o","n"," ","a","v","a","i","l","a","b","l","e">>

ScoringUnavailable ==
    <<"S","c","o","r","i","n","g"," ","u","n","a","v","a","i","l","a","b","l","e">>

\* job.get("description", "")[:500]; a null description cannot be sliced
PromptDescription(job) ==
    LET description == GetOr(job, "description", Str(<<>>))
    IN  IF description.type = "NoneType" THEN Raised("TypeError")
        ELSE Str(Take(description.val, 500))

\* one entry of jobs_for_prompt
JobForPrompt(job, description) ==
    IF IsRaised(description) THEN description
    ELSE Dict([job_id |-> Get(job, "job_id"),
               title |-> Get(job, "title"),
               company |-> Get(job, "company_name"),
               description |-> description])

\* jobs_for_prompt, or the exception building it raised
RECURSIVE JobsForPrompt(_)
JobsForPrompt(jobs) ==
    IF jobs = <<>> THEN List(<<>>)
    ELSE Prepend(JobForPrompt(Head(jobs), PromptDescription(Head(jobs))),
                 JobsForPrompt(Tail(jobs)))

\* the list comprehension over resume_data.get(key, []): a null list cannot
\* be iterated, a null entry has no get
SummaryLines(entries, first, second) ==
    IF entries.type = "NoneType" THEN Raised("TypeError")
    ELSE IF \E n \in DOMAIN entries.val : entries.val[n].type = "NoneType"
    THEN Raised("AttributeError")
    ELSE List([n \in DOMAIN entries.val |->
                  <<Get(entries.val[n].val, first), Get(entries.val[n].val, second)>>])

\* resume_summary, or the exception building it raised
ResumeSummaryOf(skills, experience, education) ==
    IF IsRaised(experience) THEN experience
    ELSE IF IsRaised(education) THEN education
    ELSE Dict([skills |-> skills, experience |-> experience, education |-> education])

ResumeSummary(resume_data) ==
    ResumeSummaryOf(GetOr(resume_data, "skills", List(<<>>)),
                    SummaryLines(GetOr(resume_data, "experience", List(<<>>)), "role", "company"),
                    SummaryLines(GetOr(resume_data, "education", List(<<>>)), "degree", "field"))

\* the text the LLM answered with: it either is the JSON text of a value
\* or is not JSON
Content(value) == [type |-> "str", is_json |-> TRUE, value |-> value]

NotJson == [type |-> "str", is_json |-> FALSE, value |-> None]

\* json.loads(content)
JsonLoads(content) ==
    IF content.is_json THEN content.value ELSE Raised("JSONDecodeError")

\* result.get("scores", []); a result that is no object has no get
ScoresOf(result) ==
    IF IsRaised(result) THEN result
    ELSE IF result.type # "dict" THEN Raised("AttributeError")
    ELSE GetOr(result.val, "scores", List(<<>>))

\* {item["job_id"]: item for item in items}: a later item replaces an
\* earlier one of the same job_id, an item without job_id raises
RECURSIVE ScoresMapOf(_, _)
ScoresMapOf(scores_map, items) ==
    IF items = <<>> THEN Dict(scores_map)
    ELSE IF "job_id" \notin DOMAIN Head(items).val THEN Raised("KeyError")
    ELSE ScoresMapOf([job_id \in DOMAIN scores_map \cup {Head(items).val.job_id} |->
                         IF job_id = Head(items).val.job_id THEN Head(items).val
                         ELSE scores_map[job_id]],
                     Tail(items))

\* scores_map, or the exception building it raised
ScoresMap(scores) ==
    IF IsRaised(scores) THEN scores
    ELSE IF scores.type # "list" THEN Raised("TypeError")
    ELSE ScoresMapOf(<<>>, scores.val)

\* the entry a job gets when the response has none for it
DefaultScoreInfo ==
    [score |-> PyInt(0),
     explanation |-> Str(NotEvaluated),
     key_requirements |-> List(<<>>),
     alignment |-> Dict([pros |-> List(<<>>), cons |-> List(<<>>)])]

\* scores_map.get(job_id, {...})
ScoreInfo(scores_map, job_id) ==
    IF job_id \in DOMAIN scores_map THEN scores_map[job_id] ELSE DefaultScoreInfo

\* scored_job
ScoredJobOf(job, score_info, apply_link) ==
    IF IsRaised(apply_link) THEN apply_link
    ELSE Dict([job_id |-> Get(job, "job_id"),
               title |-> Get(job, "title"),
               company_name |-> Get(job, "company_name"),
               location |-> Get(job, "location"),
               via |-> Get(job, "via"),
               description |-> Get(job, "description"),
               thumbnail |-> Get(job, "thumbnail"),
               extensions |-> GetOr(job, "detected_extensions", Dict(<<>>)),
               apply_link |-> apply_link,
               compatibility_score |-> GetOr(score_info, "score", PyInt(0)),
               match_explanation |-> GetOr(score_info, "explanation", Str(NoExplanationAvailable)),
               key_requirements |-> GetOr(score_info, "key_requirements", List(<<>>)),
               alignment |-> GetOr(score_info, "alignment",
                                   Dict([pros |-> List(<<>>), cons |-> List(<<>>)]))])

\* the loop over jobs: the scored_job of each in order, or the first exception
RECURSIVE ScoredEach(_, _)
ScoredEach(jobs, scores_map) ==
    IF jobs = <<>> THEN List(<<>>)
    ELSE Prepend(ScoredJobOf(Head(jobs), ScoreInfo(scores_map, Get(Head(jobs), "job_id")),
                             ApplyLink(Head(jobs))),
                 ScoredEach(Tail(jobs), scores_map))

\* seeded fault: the sort is ascending
InsertByLlmScoreAscending(sorted, x) ==
    LET n == Cardinality({i \in DOMAIN sorted :
                             sorted[i].compatibility_score.val <= x.compatibility_score.val})
    IN  SubSeq(sorted, 1, n) \o <<x>> \o SubSeq(sorted, n + 1, Len(sorted))

\* where the stable descending sort puts x among the already sorted
InsertByLlmScore(sorted, x) ==
    LET n == Cardinality({i \in DOMAIN sorted :
                             sorted[i].compatibility_score.val >= x.compatibility_score.val})
    IN  SubSeq(sorted, 1, n) \o <<x>> \o SubSeq(sorted, n + 1, Len(sorted))

RECURSIVE SortByLlmScore(_)
SortByLlmScore(scored) ==
    IF scored = <<>> THEN <<>>
    ELSE InsertByLlmScore(SortByLlmScore(SubSeq(scored, 1, Len(scored) - 1)),
                          scored[Len(scored)])

\* scored_jobs.sort(...): two scores are compared as soon as there are two
\* entries, and a null score cannot be compared
SortedScored(scored_jobs) ==
    IF IsRaised(scored_jobs) THEN scored_jobs
    ELSE IF /\ Len(scored_jobs.val) >= 2
            /\ \E n \in DOMAIN scored_jobs.val :
                   scored_jobs.val[n].compatibility_score.type # "int"
    THEN Raised("TypeError")
    ELSE List(SortByLlmScore(scored_jobs.val))

\* the loop and the sort once scores_map is built
ScoredWithMap(jobs, scores_map) ==
    IF IsRaised(scores_map) THEN scores_map
    ELSE SortedScored(ScoredEach(jobs, scores_map.val))

\* the body of the try for what the LLM call gave: the sorted scored_jobs,
\* or the exception raised in it
TryScoring(jobs, llm) ==
    IF IsRaised(llm) THEN llm
    ELSE ScoredWithMap(jobs, ScoresMap(ScoresOf(JsonLoads(llm))))

\* one entry of the list the except branch returns
UnscoredJobOf(job, apply_link) ==
    IF IsRaised(apply_link) THEN apply_link
    ELSE Dict([job_id |-> Get(job, "job_id"),
               title |-> Get(job, "title"),
               company_name |-> Get(job, "company_name"),
               location |-> Get(job, "location"),
               via |-> Get(job, "via"),
               description |-> Get(job, "description"),
               apply_link |-> apply_link,
               compatibility_score |-> PyInt(0),
               match_explanation |-> Str(ScoringUnavailable)])

\* the list the except branch returns, or the exception building it raised
RECURSIVE Fallback(_)
Fallback(jobs) ==
    IF jobs = <<>> THEN List(<<>>)
    ELSE Prepend(UnscoredJobOf(Head(jobs), ApplyLink(Head(jobs))), Fallback(Tail(jobs)))

\* try ... except Exception
ScoredOrFallback(scored_jobs, jobs) ==
    IF IsRaised(scored_jobs) THEN Fallback(jobs) ELSE scored_jobs

\* the statements before the try are not guarded
ScoreAfterPrompt(jobs_for_prompt, resume_summary, jobs, llm) ==
    IF IsRaised(jobs_for_prompt) THEN jobs_for_prompt
    ELSE IF IsRaised(resume_summary) THEN resume_summary
    ELSE ScoredOrFallback(TryScoring(jobs, llm), jobs)

\* what score_jobs_with_groq returns or raises when the LLM call gives llm
score_jobs_with_groq(resume_data, jobs, llm) ==
    ScoreAfterPrompt(JobsForPrompt(jobs), ResumeSummary(resume_data), jobs, llm)

\* the LLM is called when building the prompt did not raise
LlmCalled(resume_data, jobs) ==
    ~IsRaised(JobsForPrompt(jobs)) /\ ~IsRaised(ResumeSummary(resume_data))

(***************************************************************************)
(* Inputs of the job service: postings, resumes and answers of the LLM     *)
(***************************************************************************)
Id1 == <<"1">>

Id2 == <<"2">>

PythonDev == <<"P","y","t","h","o","n"," ","D","e","v">>

JavaDev == <<"J","a","v","a"," ","D","e","v">>

TechCo == <<"T","e","c","h"," ","C","o">>

LegacyCo == <<"L","e","g","a","c","y"," ","C","o">>

NeedPython == <<"N","e","e","d"," ","P","y","t","h","o","n">>

NeedJava == <<"N","e","e","d"," ","J","a","v","a">>

BackendDev == <<"B","a","c","k","e","n","d"," ","D","e","v">>

OldCorp == <<"O","l","d"," ","C","o","r","p">>

GreatMatch == <<"G","r","e","a","t"," ","m","a","t","c","h">>

\* the postings the service scores: two complete ones, one without job_id,
\* one with a null description, one with a null apply option
ServicePool == {
    [job_id |-> Str(Id1), title |-> Str(PythonDev), company_name |-> Str(TechCo),
     description |-> Str(NeedPython)],
    [job_id |-> Str(Id2), title |-> Str(JavaDev), company_name |-> Str(LegacyCo),
     description |-> Str(NeedJava),
     apply_options |-> List(<<Dict([link |-> Str(ApplyUrl)])>>)],
    [title |-> Str(Dev), description |-> Str(DescHiring)],
    [job_id |-> Str(IdE), description |-> None],
    [job_id |-> Str(IdA), description |-> Str(DescHiring), apply_options |-> List(<<None>>)]}

\* the parsed resumes: complete, empty, and with a null experience
ResumePool == {
    [skills |-> List(<<Str(Python)>>),
     experience |-> List(<<Dict([role |-> Str(BackendDev), company |-> Str(OldCorp)])>>)],
    <<>>,
    [skills |-> List(<<Str(Python)>>), experience |-> None]}

\* an entry of the response's scores
ScoreEntry(job_id, score) ==
    Dict([job_id |-> Str(job_id), score |-> score, explanation |-> Str(GreatMatch)])

\* the lists of entries a response can carry
ScoreLists == {
    <<>>,
    <<ScoreEntry(Id1, PyInt(90)), ScoreEntry(Id2, PyInt(20))>>,
    <<ScoreEntry(Id1, PyInt(20)), ScoreEntry(Id2, PyInt(90))>>,
    <<ScoreEntry(Id1, PyInt(50)), ScoreEntry(Id2, PyInt(50))>>,
    <<ScoreEntry(Id1, PyInt(90)), ScoreEntry(Id1, PyInt(10))>>,
    <<Dict([job_id |-> Str(Id1), explanation |-> Str(GreatMatch)])>>,
    <<Dict([score |-> PyInt(70)])>>,
    <<ScoreEntry(Id1, None), ScoreEntry(Id2, PyInt(20))>>}

\* what the LLM call can give: an exception, a text that is not JSON, JSON
\* that is no object, an object without scores or with null scores, an
\* object with a list of scores
LlmOutcomes ==
    {Raised("APIError"), NotJson, Content(List(<<>>)), Content(Dict(<<>>)),
     Content(Dict([scores |-> None]))}
    \cup {Content(Dict([scores |-> List(scores)])) : scores \in ScoreLists}


\* the candidate's years of experience range over 0..MaxYears
MaxYears == 7

\* a batch holds at most MaxBatch postings
MaxBatch == 3

\* the candidates the batches are ranked for
BatchLocations == {None, Str(AustinTX)}

RECURSIVE ListsOf(_, _)
ListsOf(S, n) ==
    IF n = 0 THEN {<<>>}
    ELSE LET shorter == ListsOf(S, n - 1)
         IN  shorter \cup {<<x>> \o l : x \in S, l \in {m \in shorter : Len(m) = n - 1}}

\* the lists of postings the provider or the cached response can hold
PipelineBatches == ListsOf(PipelinePool, MaxBatch) \cup {LongBatch}

\* what the provider answers to n queries when it holds jobs: every query
\* gets all of them, or the first, the second or both fetches raise, or each
\* query gets one half
Responses(jobs, n) ==
    IF n = 1 THEN {<<List(jobs)>>, <<Raised("HTTPError")>>}
    ELSE {<<List(jobs), List(jobs)>>,
          <<Raised("HTTPError"), List(jobs)>>,
          <<List(jobs), Raised("HTTPError")>>,
          <<Raised("HTTPError"), Raised("HTTPError")>>,
          <<List(Take(jobs, Len(jobs) \div 2)),
            List(SubSeq(jobs, Len(jobs) \div 2 + 1, Len(jobs)))>>}

\* what reading the cached response gives: its jobs_results, or an exception
CachedResponses(jobs) == {<<List(jobs)>>, <<Raised("JSONDecodeError")>>}

(***************************************************************************)
(* State: the arguments of a call, and what the call returned              *)
(***************************************************************************)
VARIABLES
    jobs,                   \* the list of postings
    user_skills,            \* the candidate's skill set
    user_experience_years,  \* the candidate's years of experience
    user_location,          \* the candidate's location, or None
    pc,                     \* "ready", then where the call is
    job_index,              \* which of jobs calculate_compatibility_score got
    compatibility,          \* what calculate_compatibility_score returned
    matched_jobs,           \* what match_jobs_to_user returned
    user_profile,           \* the profile discover_and_match_jobs got
    use_api,                \* its use_api argument
    queries,                \* the queries it sent, none when use_api is false
    fetched,                \* what each fetch, or the cached file, gave
    found_jobs,             \* its local jobs before the limit
    discovery,              \* what discover_and_match_jobs returned
    resume_data,            \* the parsed resume score_jobs_with_groq got
    llm_response,           \* what the LLM call gave, None when not made
    scored_jobs,            \* what score_jobs_with_groq returned
    request,                \* the body of the request an endpoint got
    table_resumes,          \* the resumes table: id -> user_id
    table_resume_details,   \* the resume_details table: resume_id -> row
    structured_data,        \* what process_resume returned
    calls,                  \* the service calls the endpoint has made
    response                \* what the endpoint answered, None before

matcher_vars == <<jobs, user_skills, user_experience_years, user_location,
                  job_index, compatibility, matched_jobs>>

pipeline_vars == <<user_profile, use_api, queries, fetched, found_jobs, discovery>>

service_vars == <<resume_data, llm_response, scored_jobs>>

api_vars == <<request, table_resumes, table_resume_details, structured_data,
              calls, response>>

vars == <<matcher_vars, pipeline_vars, service_vars, api_vars, pc>>

\* no call of the matcher has been made
MatcherIdle ==
    /\ job_index = 0
    /\ compatibility = None
    /\ matched_jobs = None

\* no call of the pipeline has been made
PipelineIdle ==
    /\ queries = <<>>
    /\ fetched = <<>>
    /\ found_jobs = <<>>
    /\ discovery = None

\* no call of the job service has been made
ServiceIdle ==
    /\ llm_response = None
    /\ scored_jobs = None

\* no request has come in
ApiIdle ==
    /\ request = <<>>
    /\ table_resumes = <<>>
    /\ table_resume_details = <<>>
    /\ structured_data = None
    /\ calls = <<>>
    /\ response = None

Init ==
    /\ \/ /\ jobs \in {<<job>> : job \in JobPool}
          /\ user_skills \in UserSkillSets
          /\ user_experience_years \in 0..MaxYears
          /\ user_location \in UserLocations
       \/ /\ jobs \in ListsOf(BatchPool, MaxBatch)
          /\ user_skills = {}
          /\ user_experience_years = 1
          /\ user_location \in BatchLocations
    /\ pc = "ready"
    /\ MatcherIdle
    /\ user_profile = <<>>
    /\ use_api = FALSE
    /\ PipelineIdle
    /\ resume_data = <<>>
    /\ ServiceIdle
    /\ ApiIdle

\* a call of calculate_compatibility_score on one of the postings
CalculateCompatibilityScore ==
    /\ pc = "ready"
    /\ \E n \in DOMAIN jobs :
        /\ job_index' = n
        /\ compatibility' = calculate_compatibility_score(jobs[n], user_skills,
                                user_experience_years, user_location)
    /\ pc' = "scored"
    /\ UNCHANGED <<jobs, user_skills, user_experience_years, user_location, matched_jobs>>
    /\ UNCHANGED <<pipeline_vars, service_vars, api_vars>>

\* a call of match_jobs_to_user on the list
MatchJobsToUser ==
    /\ pc = "ready"
    /\ matched_jobs' = match_jobs_to_user(jobs, user_skills,
                            user_experience_years, user_location)
    /\ jobs' = InputJobsAfter(jobs, user_experience_years)
    /\ pc' = "ranked"
    /\ UNCHANGED <<user_skills, user_experience_years, user_location,
                   job_index, compatibility>>
    /\ UNCHANGED <<pipeline_vars, service_vars, api_vars>>

Next == CalculateCompatibilityScore \/ MatchJobsToUser

Spec == Init /\ [][Next]_vars

(***************************************************************************)
(* The pipeline: a call of discover_and_match_jobs                         *)
(***************************************************************************)
InitPipeline ==
    /\ jobs \in PipelineBatches
    /\ user_profile \in ProfilePool
    /\ use_api \in BOOLEAN
    /\ user_skills = {}
    /\ user_experience_years = 0
    /\ user_location = None
    /\ pc = "ready"
    /\ MatcherIdle
    /\ PipelineIdle
    /\ resume_data = <<>>
    /\ ServiceIdle
    /\ ApiIdle

\* the call with use_api true: the queries are sent, the postings kept
\* are matched
DiscoverFromApi ==
    /\ pc = "ready"
    /\ use_api
    /\ \E top_skills \in TopSkills(GetOr(user_profile, "skills", {})) :
        /\ queries' = Take(generate_search_queries(top_skills,
                               GetOr(user_profile, "job_title", Str(SoftwareEngineer)).val),
                           QueryLimit)
        /\ fetched' \in Responses(jobs, Len(queries'))
    /\ found_jobs' = FoundJobs(TRUE, fetched')
    /\ discovery' = discover_and_match_jobs(user_profile, found_jobs')
    /\ pc' = "discovered"
    /\ UNCHANGED <<matcher_vars, user_profile, use_api, service_vars, api_vars>>

\* the call with use_api false: the cached response is read, its postings
\* are matched
DiscoverFromCache ==
    /\ pc = "ready"
    /\ ~use_api
    /\ queries' = <<>>
    /\ fetched' \in CachedResponses(jobs)
    /\ found_jobs' = FoundJobs(FALSE, fetched')
    /\ discovery' = discover_and_match_jobs(user_profile, found_jobs')
    /\ pc' = "discovered"
    /\ UNCHANGED <<matcher_vars, user_profile, use_api, service_vars, api_vars>>

NextPipeline == DiscoverFromApi \/ DiscoverFromCache

SpecPipeline == InitPipeline /\ [][NextPipeline]_vars

(***************************************************************************)
(* The job service: a call of score_jobs_with_groq                         *)
(***************************************************************************)
InitService ==
    /\ jobs \in ListsOf(ServicePool, MaxBatch)
    /\ resume_data \in ResumePool
    /\ user_skills = {}
    /\ user_experience_years = 0
    /\ user_location = None
    /\ user_profile = <<>>
    /\ use_api = FALSE
    /\ pc = "ready"
    /\ MatcherIdle
    /\ PipelineIdle
    /\ ServiceIdle
    /\ ApiIdle

\* the call: the prompt is built, the LLM is called and answers or raises,
\* the answer is merged into the postings
ScoreJobsWithGroq ==
    /\ pc = "ready"
    /\ \E llm \in LlmOutcomes :
        /\ llm_response' = IF LlmCalled(resume_data, jobs) THEN llm ELSE None
        /\ scored_jobs' = score_jobs_with_groq(resume_data, jobs, llm)
    /\ pc' = "scored_by_llm"
    /\ UNCHANGED <<matcher_vars, pipeline_vars, resume_data, api_vars>>

NextService == ScoreJobsWithGroq

SpecService == InitService /\ [][NextService]_vars

(***************************************************************************)
(* The request flows of main.py: analyze_resume and recommend_jobs          *)
(***************************************************************************)
\* raw_jobs[:5]
ScoreLimit == 5

ResumeIds == {"r1", "r2"}

UserIds == {"u1", "u2"}

\* the contents a table keyed by the resume's id can have
Tables(Rows) == UNION {[S -> Rows] : S \in SUBSET ResumeIds}

\* the rows of resume_details: parsed resumes, with and without a location
DetailRows ==
    LET parsed == ResumePool \ {<<>>}
    IN  parsed \cup {[location |-> Str(BostonMA)] @@ row : row \in parsed}

\* what process_resume can give: an exception, the structured data, nothing
\* extracted
ProcessOutcomes ==
    {Raised("Exception"),
     Dict([skills |-> List(<<Str(Python)>>), experience |-> List(<<>>),
           education |-> List(<<>>), projects |-> List(<<>>),
           location |-> Str(BostonMA)]),
     Dict(<<>>)}

\* what search_jobs can give: an exception, no posting, one posting, more
\* postings than are scored
SearchOutcomes ==
    {Raised("HTTPError"), List(<<>>)}
    \cup {List(<<job>>) : job \in ServicePool}
    \cup {List([n \in 1..(ScoreLimit + 1) |-> job]) : job \in ServicePool}

\* a call an endpoint made and what it returned
Call(name, result) == [name |-> name, result |-> result]

\* raise HTTPException(status_code, detail)
HTTPException(status_code, detail) == [status_code |-> status_code, detail |-> detail]

\* seeded fault: the owner of the resume is not compared with the requester
verify_resume_ownership_any_user(resumes, resume_id, user_id, db_up) ==
    db_up /\ resume_id \in DOMAIN resumes

\* SupabaseService.verify_resume_ownership: any exception of the query
\* gives False
verify_resume_ownership(resumes, resume_id, user_id, db_up) ==
    IF ~db_up THEN FALSE
    ELSE IF resume_id \notin DOMAIN resumes THEN FALSE
    ELSE resumes[resume_id] = user_id

\* SupabaseService.get_resume_details
get_resume_details(resume_details, resume_id, db_up) ==
    IF ~db_up THEN Raised("Exception")
    ELSE IF resume_id \in DOMAIN resume_details THEN Dict(resume_details[resume_id])
    ELSE None

\* the parameters of SupabaseService.insert_resume_details
InsertParameters == {"resume_id", "skills", "experience", "education", "projects"}

\* SupabaseService.insert_resume_details called with keyword arguments: the
\* table after the upsert, or the exception. A keyword that is no parameter
\* is a TypeError of the call, before the body runs.
insert_resume_details(resume_details, arguments, parsed_at, db_up) ==
    IF ~(DOMAIN arguments \subseteq InsertParameters) THEN Raised("TypeError")
    ELSE IF ~db_up THEN Raised("Exception")
    ELSE [id \in DOMAIN resume_details \cup {arguments.resume_id} |->
             IF id = arguments.resume_id
             THEN arguments @@ [parsed_at |-> parsed_at]
             ELSE resume_details[id]]

\* the keyword arguments analyze_resume passes to insert_resume_details
AnalyzeArguments(resume_id, structured) ==
    [resume_id |-> resume_id,
     skills |-> GetOr(structured, "skills", List(<<>>)),
     experience |-> GetOr(structured, "experience", List(<<>>)),
     education |-> GetOr(structured, "education", List(<<>>)),
     projects |-> GetOr(structured, "projects", List(<<>>)),
     location |-> Get(structured, "location")]

\* a value inside an f-string
Format(v) == IF v.type = "NoneType" THEN <<"N","o","n","e">> ELSE v.val

\* the search query of recommend_jobs: the most recent role with the top
\* skill, or the top skill, or the default
SearchQuery(resume_details) ==
    LET experience == Get(resume_details, "experience")
        skills == Get(resume_details, "skills")
    IN  IF Truthy(experience)
        THEN IF experience.val[1].type # "dict" THEN Raised("AttributeError")
             ELSE LET role == GetOr(experience.val[1].val, "role", Str(SoftwareEngineer))
                  IN  IF Truthy(skills)
                      THEN Str(Format(role) \o <<" ">> \o Format(skills.val[1]))
                      ELSE role
        ELSE IF Truthy(skills)
        THEN Str(Format(skills.val[1]) \o <<" ","D","e","v","e","l","o","p","e","r">>)
        ELSE Str(SoftwareEngineer)

\* the search location of recommend_jobs
SearchLocation(location, resume_details) ==
    IF ~Truthy(location) \/ Lower(location.val) = Lower(RemoteOnly)
    THEN IF Truthy(Get(resume_details, "location")) THEN Get(resume_details, "location")
         ELSE IF ~Truthy(location) THEN Str(RemoteOnly)
         ELSE location
    ELSE location

InitApi ==
    /\ \/ /\ pc = "analyze_resume"
          /\ request \in [resume_id : ResumeIds, user_id : UserIds, file_url : {"url"}]
       \/ /\ pc = "recommend_jobs"
          /\ request \in [resume_id : ResumeIds, user_id : UserIds,
                          location : {None, Str(RemoteOnly), Str(AustinTX)}]
    /\ table_resumes \in Tables(UserIds)
    /\ table_resume_details \in Tables(DetailRows)
    /\ structured_data = None
    /\ calls = <<>>
    /\ response = None
    /\ jobs = <<>>
    /\ user_skills = {}
    /\ user_experience_years = 0
    /\ user_location = None
    /\ user_profile = <<>>
    /\ use_api = FALSE
    /\ resume_data = <<>>
    /\ MatcherIdle
    /\ PipelineIdle
    /\ ServiceIdle

\* analyze_resume up to the ownership check
AnalyzeVerify ==
    /\ pc = "analyze_resume"
    /\ \E db_up \in BOOLEAN :
        LET is_owner == verify_resume_ownership(table_resumes, request.resume_id,
                                                request.user_id, db_up)
        IN  /\ calls' = Append(calls, Call("verify_resume_ownership", PyBool(is_owner)))
            /\ IF is_owner
               THEN pc' = "process_resume" /\ response' = response
               ELSE /\ pc' = "responded"
                    /\ response' = HTTPException(403,
                           "Unauthorized: You don't have permission to analyze this resume")
    /\ UNCHANGED <<matcher_vars, pipeline_vars, service_vars, request, table_resumes,
                   table_resume_details, structured_data>>

\* analyze_resume: process_resume downloads and parses the file
AnalyzeProcess ==
    /\ pc = "process_resume"
    /\ \E outcome \in ProcessOutcomes :
        /\ calls' = Append(calls, Call("process_resume", outcome))
        /\ IF IsRaised(outcome)
           THEN /\ pc' = "responded"
                /\ response' = HTTPException(500, <<"Failed to analyze resume: ", outcome.val>>)
                /\ structured_data' = structured_data
           ELSE /\ pc' = "insert_resume_details"
                /\ response' = response
                /\ structured_data' = outcome
    /\ UNCHANGED <<matcher_vars, pipeline_vars, service_vars, request, table_resumes,
                   table_resume_details>>

\* analyze_resume: the result is stored and the endpoint answers
AnalyzeStore ==
    /\ pc = "insert_resume_details"
    /\ \E db_up \in BOOLEAN :
        LET stored == insert_resume_details(table_resume_details,
                          AnalyzeArguments(request.resume_id, structured_data.val),
                          "now", db_up)
        IN  /\ calls' = Append(calls, Call("insert_resume_details", PyBool(~IsRaised(stored))))
            /\ IF IsRaised(stored)
               THEN /\ table_resume_details' = table_resume_details
                    /\ response' = HTTPException(500,
                                       <<"Failed to analyze resume: ", stored.val>>)
               ELSE /\ table_resume_details' = stored
                    /\ response' = [status_code |-> 200, success |-> TRUE,
                                    message |-> "Resume analyzed successfully",
                                    data |-> stored[request.resume_id]]
    /\ pc' = "responded"
    /\ UNCHANGED <<matcher_vars, pipeline_vars, service_vars, request, table_resumes,
                   structured_data>>

\* recommend_jobs up to the ownership check
RecommendVerify ==
    /\ pc = "recommend_jobs"
    /\ \E db_up \in BOOLEAN :
        LET is_owner == verify_resume_ownership(table_resumes, request.resume_id,
                                                request.user_id, db_up)
        IN  /\ calls' = Append(calls, Call("verify_resume_ownership", PyBool(is_owner)))
            /\ IF is_owner
               THEN pc' = "get_resume_details" /\ response' = response
               ELSE pc' = "responded" /\ response' = HTTPException(403, "Unauthorized")
    /\ UNCHANGED <<matcher_vars, pipeline_vars, service_vars, request, table_resumes,
                   table_resume_details, structured_data>>

\* recommend_jobs: the parsed resume is fetched, the query and the location
\* of the search are determined
RecommendFetch ==
    /\ pc = "get_resume_details"
    /\ \E db_up \in BOOLEAN :
        LET resume_details == get_resume_details(table_resume_details,
                                                 request.resume_id, db_up)
        IN  /\ calls' = Append(calls, Call("get_resume_details", resume_details))
            /\ IF IsRaised(resume_details)
               THEN /\ pc' = "responded"
                    /\ response' = HTTPException(500,
                           <<"Failed to recommend jobs: ", resume_details.val>>)
                    /\ resume_data' = resume_data
               ELSE IF ~Truthy(resume_details)
               THEN /\ pc' = "responded"
                    /\ response' = HTTPException(404,
                           "Resume details not found. Please analyze the resume first.")
                    /\ resume_data' = resume_data
               ELSE IF IsRaised(SearchQuery(resume_details.val))
               THEN /\ pc' = "responded"
                    /\ response' = HTTPException(500,
                           <<"Failed to recommend jobs: ", SearchQuery(resume_details.val).val>>)
                    /\ resume_data' = resume_details.val
               ELSE /\ pc' = "search_jobs"
                    /\ response' = response
                    /\ resume_data' = resume_details.val
    /\ UNCHANGED <<matcher_vars, pipeline_vars, llm_response, scored_jobs, request,
                   table_resumes, table_resume_details, structured_data>>

\* recommend_jobs: the search; no posting ends the request
RecommendSearch ==
    /\ pc = "search_jobs"
    /\ \E raw_jobs \in SearchOutcomes :
        /\ calls' = Append(calls,
               [name |-> "search_jobs", result |-> raw_jobs,
                query |-> SearchQuery(resume_data),
                location |-> SearchLocation(request.location, resume_data)])
        /\ IF IsRaised(raw_jobs)
           THEN /\ pc' = "responded"
                /\ response' = HTTPException(500, <<"Failed to recommend jobs: ", raw_jobs.val>>)
                /\ jobs' = jobs
           ELSE IF ~Truthy(raw_jobs)
           THEN /\ pc' = "responded"
                /\ response' = [status_code |-> 200, success |-> TRUE,
                                message |-> "No jobs found", jobs |-> <<>>]
                /\ jobs' = jobs
           ELSE /\ pc' = "score_jobs_with_groq"
                /\ response' = response
                /\ jobs' = Take(raw_jobs.val, ScoreLimit)
    /\ UNCHANGED <<user_skills, user_experience_years, user_location, job_index,
                   compatibility, matched_jobs, pipeline_vars, service_vars, request,
                   table_resumes, table_resume_details, structured_data>>

\* recommend_jobs: the first postings are scored and the endpoint answers
RecommendScore ==
    /\ pc = "score_jobs_with_groq"
    /\ \E llm \in LlmOutcomes :
        LET scored == score_jobs_with_groq(resume_data, jobs, llm)
        IN  /\ calls' = Append(calls, Call("score_jobs_with_groq", PyBool(~IsRaised(scored))))
            /\ llm_response' = IF LlmCalled(resume_data, jobs) THEN llm ELSE None
            /\ scored_jobs' = scored
            /\ response' =
                 IF IsRaised(scored)
                 THEN HTTPException(500, <<"Failed to recommend jobs: ", scored.val>>)
                 ELSE [status_code |-> 200, success |-> TRUE,
                       message |-> <<"Found and scored ", Len(scored.val), " jobs">>,
                       jobs |-> scored.val]
    /\ pc' = "responded"
    /\ UNCHANGED <<matcher_vars, pipeline_vars, resume_data, request, table_resumes,
                   table_resume_details, structured_data>>

NextApi ==
    \/ AnalyzeVerify
    \/ AnalyzeProcess
    \/ AnalyzeStore
    \/ RecommendVerify
    \/ RecommendFetch
    \/ RecommendSearch
    \/ RecommendScore

SpecApi == InitApi /\ [][NextApi]_vars


(***************************************************************************)
(* Properties                                                              *)
(***************************************************************************)
\* calculate_compatibility_score has returned a result
Returned == pc = "scored" /\ ~IsRaised(compatibility)

\* the posting calculate_compatibility_score was called on
ScoredJob == jobs[job_index]

\* match_jobs_to_user has returned a list
RankedReturned == pc = "ranked" /\ ~IsRaised(matched_jobs)

\* 0.40*skill + 0.25*experience + 0.10*location + 0.10*education +
\* 0.15*additional rounded to two decimals, for a skill score given as a
\* fraction and the four other sub-scores as reported in breakdown b
WeightedSum(skill, b) ==
    Round2(FracAdd(FracMul(skill, Frac(40, 100)),
                   Frac(25 * b.experience_match + 10 * b.location_match
                        + 10 * b.education_match + 15 * b.additional_factors,
                        10000)))

\* the skill score before rounding, from the skill lists of a result
UnroundedSkill(result) ==
    IF result.required_skills = {} THEN Frac(50, 1)
    ELSE Frac(100 * Cardinality(result.matching_skills),
              Cardinality(result.required_skills))

\* C1 as stated: total_score is the weighted sum of the five sub-scores
\* reported in the breakdown, rounded to two decimals.
C1_TotalFromBreakdown ==
    Returned =>
        compatibility.val.total_score =
            WeightedSum(Frac(compatibility.val.breakdown.skill_match, 100),
                        compatibility.val.breakdown)

\* C1 amended: total_score is the weighted sum (weights 0.40, 0.25, 0.10,
\* 0.10, 0.15, which sum to 1) of the skill score before its rounding,
\* 100 * |matching_skills| / |required_skills| or 50 when nothing is
\* required, and of the four other sub-scores of the breakdown, rounded to
\* two decimals.
C1_TotalFromUnroundedSkill ==
    /\ FracAdd(FracAdd(FracAdd(FracAdd(SkillWeight, ExperienceWeight),
           LocationWeight), EducationWeight), AdditionalWeight) = Frac(1, 1)
    /\ Returned =>
           compatibility.val.total_score =
               WeightedSum(UnroundedSkill(compatibility.val),
                           compatibility.val.breakdown)

\* one of seven required skills matches: skill_match is reported as 14.29
\* and the total is not the one computed from the reported sub-scores
C1_Witness ==
    /\ Returned
    /\ Cardinality(compatibility.val.required_skills) = 7
    /\ Cardinality(compatibility.val.matching_skills) = 1
    /\ compatibility.val.breakdown.skill_match = 1429
    /\ compatibility.val.total_score #
           WeightedSum(Frac(compatibility.val.breakdown.skill_match, 100),
                       compatibility.val.breakdown)

\* C2: each of the five sub-scores of the breakdown lies in [0, 100].
C2_SubScoresInRange ==
    Returned =>
        \A name \in DOMAIN compatibility.val.breakdown :
            /\ compatibility.val.breakdown[name] >= 0
            /\ compatibility.val.breakdown[name] <= 10000

C2_Witness ==
    /\ Returned
    /\ DOMAIN compatibility.val.breakdown =
           {"skill_match", "experience_match", "location_match",
            "education_match", "additional_factors"}
    /\ compatibility.val.breakdown.skill_match = 10000
    /\ Cardinality(compatibility.val.matching_skills) = 2

\* C3: matching_skills is a subset of the candidate's skills that are
\* required, missing_skills is required_skills minus the candidate's skills,
\* the two are disjoint and their union is required_skills.
C3_SkillLists ==
    Returned =>
        LET result == compatibility.val
        IN  /\ result.matching_skills \subseteq (user_skills \cap result.required_skills)
            /\ result.missing_skills = result.required_skills \ user_skills
            /\ result.matching_skills \cap result.missing_skills = {}
            /\ result.matching_skills \cup result.missing_skills = result.required_skills

C3_Witness ==
    /\ Returned
    /\ compatibility.val.matching_skills # {}
    /\ compatibility.val.missing_skills # {}
    /\ user_skills \ compatibility.val.required_skills # {}

\* C4: when the skill extraction yields the empty set, skill_match is exactly
\* 50 and required_skills, matching_skills and missing_skills are all empty,
\* whatever the candidate's skills.
C4_NoSkillsExtracted ==
    Returned /\ compatibility.val.required_skills = {} =>
        /\ compatibility.val.breakdown.skill_match = 5000
        /\ compatibility.val.matching_skills = {}
        /\ compatibility.val.missing_skills = {}

C4_Witness ==
    /\ Returned
    /\ compatibility.val.required_skills = {}
    /\ user_skills # {}
    /\ compatibility.val.breakdown.skill_match = 5000

\* C5 as stated: when min_years is known (not None) and the candidate has at
\* least min_years and at most min_years + 2 years, experience_match is 100.
C5_WithinTwoYears ==
    Returned =>
        LET min_years == compatibility.val.experience_requirement.min_years
        IN  /\ min_years # None
            /\ user_experience_years >= min_years.val
            /\ user_experience_years - min_years.val <= 2
            => compatibility.val.breakdown.experience_match = 10000

\* the job_id of every posting of the list, in order
InputIds == [i \in DOMAIN jobs |-> Get(jobs[i], "job_id")]

\* the job_id of every entry of the ranked list, in order
OutputIds == [i \in DOMAIN matched_jobs.val |-> matched_jobs.val[i].job_id]

\* the score the ranked list gives the posting with this job_id
ScoreOfId(id) ==
    matched_jobs.val[CHOOSE i \in DOMAIN matched_jobs.val :
                        matched_jobs.val[i].job_id = id].compatibility_score

\* the ids of a list whose posting scored v, in the order of the list
IdsWithScore(ids, v) == SelectSeq(ids, LAMBDA id : ScoreOfId(id) = v)

\* C6: the returned list holds the postings in descending order of
\* compatibility_score, and postings of equal score in the order they have in
\* the input; that fixes the order, so ranking the same input again gives it
\* again.
C6_StableDescending ==
    RankedReturned =>
        LET out == matched_jobs.val
        IN  /\ Len(out) = Len(jobs)
            /\ \A i \in DOMAIN jobs : \E k \in DOMAIN out : out[k].job_id = InputIds[i]
            /\ \A i, k \in DOMAIN out :
                   i < k => out[i].compatibility_score >= out[k].compatibility_score
            /\ \A k \in DOMAIN out :
                   IdsWithScore(OutputIds, out[k].compatibility_score)
                       = IdsWithScore(InputIds, out[k].compatibility_score)

\* two different postings tie, and the ranking is not the input order
C6_Witness ==
    /\ RankedReturned
    /\ \E i, k \in DOMAIN matched_jobs.val :
           /\ i < k
           /\ matched_jobs.val[i].job_id # matched_jobs.val[k].job_id
           /\ matched_jobs.val[i].compatibility_score
                  = matched_jobs.val[k].compatibility_score
    /\ OutputIds # InputIds

\* C7 as stated: the posting whose only text is the description "5+ years of
\* Python and AWS experience, Bachelor's degree required", for a candidate
\* with skills {python, aws} and 6 years, scores skill_match 100,
\* experience_match 100, education_match 100 and total_score 87.5.
C7_Scenario ==
    /\ Returned
    /\ ScoredJob = [description |-> Str(DescScenario)]
    /\ user_skills = {Python, Aws}
    /\ user_experience_years = 6
    => /\ compatibility.val.breakdown.skill_match = 10000
       /\ compatibility.val.breakdown.experience_match = 10000
       /\ compatibility.val.breakdown.education_match = 10000
       /\ compatibility.val.total_score = 8750

\* the text the experience parser reads (description and Qualifications
\* items) asks for "senior", holds no junior keyword, and no years were found
AsksForSeniorNoYears ==
    /\ Returned
    /\ LET text_content == ExperienceTextContent(ScoredJob)
       IN  /\ ~IsRaised(text_content)
           /\ Contains(Lower(text_content.val), <<"s","e","n","i","o","r">>)
           /\ \A word \in JuniorWords : ~Contains(Lower(text_content.val), word)
    /\ compatibility.val.experience_requirement.min_years = None

RemoteJobLocatedCandidate ==
    /\ Returned
    /\ Truthy(Get(ScoredJob, "location"))
    /\ Contains(Lower(ScoredJob.location.val), Remote)
    /\ Truthy(user_location)

NoNullEntries(job) ==
    /\ Truthy(Get(job, "job_highlights")) =>
           \A n \in DOMAIN job.job_highlights.val :
               LET highlight == job.job_highlights.val[n]
               IN  /\ highlight # None
                   /\ Truthy(Get(highlight.val, "items")) =>
                          \A m \in DOMAIN highlight.val.items.val :
                              highlight.val.items.val[m] # None
    /\ Truthy(Get(job, "apply_options")) =>
           \A n \in DOMAIN job.apply_options.val : job.apply_options.val[n] # None

\* C10 as stated: for postings whose optional fields are absent, null or
\* empty and a candidate with no location, calculate_compatibility_score and
\* match_jobs_to_user return a result and do not raise.
C10_MissingFieldsNeverRaise ==
    /\ user_location = None
    /\ \A n \in DOMAIN jobs : NoNullEntries(jobs[n])
    => /\ pc = "scored" => ~IsRaised(compatibility)
       /\ pc = "ranked" => ~IsRaised(matched_jobs)

\* discover_and_match_jobs has returned a result
Discovered == pc = "discovered" /\ ~IsRaised(discovery)

\* how many entries of a ranked list have a score in a set of hundredths
CountIn(matched, scores) ==
    Cardinality({i \in DOMAIN matched : matched[i].compatibility_score \in scores})

\* C11: in the result of discover_and_match_jobs, average_score is the mean
\* of compatibility_score over the matched jobs rounded to two decimals,
\* high_match_count counts the scores >= 70, medium_match_count those in
\* [40, 70), low_match_count those < 40; when no posting was found the
\* ranked list is empty, average_score is 0 and nothing is raised.
C11_BatchSummary ==
    /\ Discovered =>
        LET matched == discovery.val.matched_jobs
            summary == discovery.val.summary
            n == Len(matched)
            total == SumOfScores(matched)
            off == summary.average_score * n - total
        IN  /\ n = 0 => summary.average_score = 0
            /\ n > 0 => 2 * off <= n /\ -2 * off <= n
            /\ summary.high_match_count = CountIn(matched, 7000..10000)
            /\ summary.medium_match_count = CountIn(matched, 4000..6999)
            /\ summary.low_match_count = CountIn(matched, 0..3999)
    /\ pc = "discovered" /\ found_jobs = <<>> =>
        /\ ~IsRaised(discovery)
        /\ discovery.val.matched_jobs = <<>>
        /\ discovery.val.summary.average_score = 0

\* a batch with scores in two buckets whose mean is not a whole number of
\* hundredths
C11_Witness ==
    /\ Discovered
    /\ Len(discovery.val.matched_jobs) >= 2
    /\ discovery.val.summary.average_score * Len(discovery.val.matched_jobs)
           # SumOfScores(discovery.val.matched_jobs)
    /\ discovery.val.summary.high_match_count > 0
    /\ discovery.val.summary.medium_match_count > 0

\* no posting is found and the call returns
C11_WitnessEmpty ==
    /\ Discovered
    /\ jobs # <<>>
    /\ found_jobs = <<>>
    /\ discovery.val.summary.average_score = 0

LlmAnswered ==
    /\ pc = "scored_by_llm"
    /\ llm_response # None
    /\ ~IsRaised(llm_response)

\* the entries of the answer's scores, none when the answer has no list of
\* scores
AnswerEntries ==
    IF /\ llm_response.is_json
       /\ llm_response.value.type = "dict"
       /\ "scores" \in DOMAIN llm_response.value.val
       /\ llm_response.value.val.scores.type = "list"
    THEN llm_response.value.val.scores.val
    ELSE <<>>

\* the answer has an entry for this job_id
HasEntry(job_id) ==
    \E n \in DOMAIN AnswerEntries :
        "job_id" \in DOMAIN AnswerEntries[n].val /\ AnswerEntries[n].val.job_id = job_id

\* the last entry of the answer for this job_id
LastEntry(job_id) ==
    AnswerEntries[CHOOSE n \in DOMAIN AnswerEntries :
        /\ "job_id" \in DOMAIN AnswerEntries[n].val
        /\ AnswerEntries[n].val.job_id = job_id
        /\ \A m \in DOMAIN AnswerEntries :
               "job_id" \in DOMAIN AnswerEntries[m].val
               /\ AnswerEntries[m].val.job_id = job_id => m <= n].val

\* the score the answer gives a posting: that of its entry, 0 without one
GivenScore(job) ==
    IF HasEntry(Get(job, "job_id"))
    THEN GetOr(LastEntry(Get(job, "job_id")), "score", PyInt(0))
    ELSE PyInt(0)

\* the returned list has one entry per posting, each with the score the
\* answer gives the posting's job_id, or 0 and "Not evaluated" without one,
\* in descending order of score
OnePerJobInScoreOrder ==
    /\ ~IsRaised(scored_jobs)
    /\ Len(scored_jobs.val) = Len(jobs)
    /\ \E p \in {q \in [DOMAIN jobs -> DOMAIN jobs] :
                    \A i, k \in DOMAIN jobs : i # k => q[i] # q[k]} :
           \A k \in DOMAIN jobs :
               /\ scored_jobs.val[k].job_id = Get(jobs[p[k]], "job_id")
               /\ scored_jobs.val[k].compatibility_score = GivenScore(jobs[p[k]])
               /\ ~HasEntry(Get(jobs[p[k]], "job_id")) =>
                      scored_jobs.val[k].match_explanation = Str(NotEvaluated)
    /\ \A i, k \in DOMAIN scored_jobs.val :
           /\ i < k
           /\ scored_jobs.val[i].compatibility_score.type = "int"
           /\ scored_jobs.val[k].compatibility_score.type = "int"
           => scored_jobs.val[i].compatibility_score.val
                  >= scored_jobs.val[k].compatibility_score.val

AnswerUsable ==
    /\ LlmAnswered
    /\ llm_response.is_json
    /\ llm_response.value.type = "dict"
    /\ GetOr(llm_response.value.val, "scores", List(<<>>)).type = "list"
    /\ \A n \in DOMAIN AnswerEntries : "job_id" \in DOMAIN AnswerEntries[n].val
    /\ Len(jobs) >= 2 => \A n \in DOMAIN jobs : GivenScore(jobs[n]).type = "int"
    /\ \A n \in DOMAIN jobs : NoNullEntries(jobs[n])

RecommendRequest == "location" \in DOMAIN request

AnalyzeRequest == "file_url" \in DOMAIN request

\* the resumes table says the resume is the requester's
Owns ==
    /\ request.resume_id \in DOMAIN table_resumes
    /\ table_resumes[request.resume_id] = request.user_id

\* the names of the calls made so far
CallNames == {calls[n].name : n \in DOMAIN calls}

\* the endpoint answered with this status
Answered(status_code) == response # None /\ response.status_code = status_code

\* C14: in recommend_jobs a call of search_jobs or score_jobs_with_groq is
\* made only after verify_resume_ownership returned true for the request's
\* resume_id and user_id and get_resume_details returned details; a
\* requester who does not own the resume is answered 403 and a resume for
\* which no details are returned is answered 404, both without any
\* search_jobs or score_jobs_with_groq call.
C14_SearchOnlyAfterOwnershipAndDetails ==
    RecommendRequest =>
        /\ \A n \in DOMAIN calls :
              calls[n].name \in {"search_jobs", "score_jobs_with_groq"} =>
                  /\ n > 2
                  /\ calls[1] = Call("verify_resume_ownership", PyBool(TRUE))
                  /\ Owns
                  /\ calls[2].name = "get_resume_details"
                  /\ calls[2].result.type = "dict"
                  /\ calls[2].result.val = table_resume_details[request.resume_id]
        /\ pc = "responded" /\ ~Owns =>
              /\ Answered(403)
              /\ CallNames = {"verify_resume_ownership"}
        /\ pc = "responded" /\ (\E n \in DOMAIN calls : calls[n] = Call("get_resume_details", None)) =>
              /\ Answered(404)
              /\ CallNames = {"verify_resume_ownership", "get_resume_details"}

\* an owner with details was answered with scored postings, after the four
\* calls in order
C14_Witness ==
    /\ RecommendRequest
    /\ pc = "responded"
    /\ Answered(200)
    /\ Len(calls) = 4
    /\ calls[3].name = "search_jobs"
    /\ calls[4].name = "score_jobs_with_groq"
    /\ Len(response.jobs) = ScoreLimit

\* a requester who is not the owner was answered 403
C14_WitnessNonOwner ==
    RecommendRequest /\ pc = "responded" /\ ~Owns /\ Answered(403)
    /\ request.resume_id \in DOMAIN table_resumes

\* an owner without details was answered 404
C14_WitnessNoDetails ==
    RecommendRequest /\ pc = "responded" /\ Owns /\ Answered(404)

\* C15: in analyze_resume, when the requester owns the resume and
\* process_resume succeeds, the extracted data is stored in resume_details
\* and the endpoint answers success=True, "Resume analyzed successfully"
\* (unless the database fails); a requester who does not own the resume is
\* answered 403 and nothing is stored.
C15_OwnerAnalysisStored ==
    AnalyzeRequest /\ pc = "responded" =>
        /\ Owns /\ calls[1].result.val /\ structured_data # None =>
              \/ /\ Answered(200)
                 /\ response.success
                 /\ response.message = "Resume analyzed successfully"
                 /\ request.resume_id \in DOMAIN table_resume_details
                 /\ table_resume_details[request.resume_id].skills
                        = GetOr(structured_data.val, "skills", List(<<>>))
              \/ Answered(500) /\ response.detail[2] = "Exception"
        /\ ~Owns =>
              /\ Answered(403)
              /\ "insert_resume_details" \notin CallNames

\* the state C15 is about: the owner's resume was processed and the endpoint
\* has answered
C15_OwnerProcessed ==
    /\ AnalyzeRequest
    /\ pc = "responded"
    /\ Owns
    /\ structured_data # None
    /\ "insert_resume_details" \in CallNames

(***************************************************************************)
(* The experience parser                                                    *)
(***************************************************************************)
\* the lower-cased text extract_experience_requirement read for the scored
\* posting
ReadText == Lower(ExperienceTextContent(ScoredJob).val)

\* what extract_experience_requirement returned for the scored posting
Requirement == compatibility.val.experience_requirement

HasJuniorWord == \E word \in JuniorWords : Contains(ReadText, word)

HasSeniorWord == \E word \in SeniorWords : Contains(ReadText, word)

\* C16 as stated: whenever the text contains one of senior/staff/principal/
\* lead the level is "senior", also when a junior-family keyword is present;
\* with only a junior-family keyword the level is "junior"; both regardless
\* of min_years.
C16_SeniorWordWins ==
    Returned =>
        /\ HasSeniorWord => Requirement.level = "senior"
        /\ HasJuniorWord /\ ~HasSeniorWord => Requirement.level = "junior"

\* C16 amended: whenever the text contains one of junior/entry/associate/
\* intern the level is "junior", also when a senior-family keyword is
\* present; with only a senior-family keyword the level is "senior"; both
\* regardless of min_years.
C16_JuniorWordWins ==
    Returned =>
        /\ HasJuniorWord => Requirement.level = "junior"
        /\ HasSeniorWord /\ ~HasJuniorWord => Requirement.level = "senior"

\* both families are present and the level is junior
C16_Witness ==
    /\ Returned
    /\ HasJuniorWord
    /\ HasSeniorWord
    /\ Requirement.level = "junior"

\* the keyword overrides the years: junior at 5 years, senior at 1 year
C16_WitnessJuniorOverYears ==
    Returned /\ HasJuniorWord /\ Requirement.min_years = PyInt(5)
    /\ Requirement.level = "junior"

C16_WitnessSeniorOverYears ==
    Returned /\ HasSeniorWord /\ Requirement.min_years = PyInt(1)
    /\ Requirement.level = "senior"

\* C17: when the text holds no level keyword, the level is "mid" if
\* min_years is unknown, and with min_years known it is "junior" for
\* min_years <= 2, "senior" for min_years >= 5 and "mid" for 3 or 4.
C17_LevelFromYears ==
    Returned /\ ~HasJuniorWord /\ ~HasSeniorWord =>
        IF Requirement.min_years = None THEN Requirement.level = "mid"
        ELSE IF Requirement.min_years.val <= 2 THEN Requirement.level = "junior"
        ELSE IF Requirement.min_years.val >= 5 THEN Requirement.level = "senior"
        ELSE Requirement.level = "mid"

\* the same with min_years = 0 left out
C17_LevelFromPositiveYears ==
    Returned /\ ~HasJuniorWord /\ ~HasSeniorWord /\ Requirement.min_years # PyInt(0) =>
        IF Requirement.min_years = None THEN Requirement.level = "mid"
        ELSE IF Requirement.min_years.val <= 2 THEN Requirement.level = "junior"
        ELSE IF Requirement.min_years.val >= 5 THEN Requirement.level = "senior"
        ELSE Requirement.level = "mid"

\* no keyword, min_years = 0 is known
C17_ZeroYearsNoKeyword ==
    Returned /\ ~HasJuniorWord /\ ~HasSeniorWord /\ Requirement.min_years = PyInt(0)

\* the numbers of every match of the five patterns in the text read
YearsMatches == AllMatches(years_patterns, ReadText)

\* what the matches contribute to the minimum and to the maximum tracker
MinContributions == {YearsMatches[n][1] : n \in DOMAIN YearsMatches}

MaxContributions == {YearsMatches[n][Len(YearsMatches[n])] : n \in DOMAIN YearsMatches}

\* C18: min_years is the smallest first number and max_years the largest
\* last number over all matches of all five patterns (a one-number match
\* counts for both), and both are None exactly when no pattern matched.
C18_TightestOverAllMatches ==
    Returned =>
        IF YearsMatches = <<>>
        THEN Requirement.min_years = None /\ Requirement.max_years = None
        ELSE /\ Requirement.min_years.type = "int"
             /\ Requirement.max_years.type = "int"
             /\ Requirement.min_years.val \in MinContributions
             /\ \A v \in MinContributions : Requirement.min_years.val <= v
             /\ Requirement.max_years.val \in MaxContributions
             /\ \A v \in MaxContributions : Requirement.max_years.val >= v

\* a one-number match and a two-number match were found, the minimum comes
\* from a later match than the first
C18_Witness ==
    /\ Returned
    /\ \E n, k \in DOMAIN YearsMatches :
          /\ n < k
          /\ Len(YearsMatches[n]) = 1
          /\ Len(YearsMatches[k]) = 2
          /\ YearsMatches[k][1] < YearsMatches[n][1]
          /\ Requirement.min_years = PyInt(YearsMatches[k][1])
    /\ Requirement.max_years.val > Requirement.min_years.val

\* no pattern matched
C18_WitnessNoMatch ==
    Returned /\ YearsMatches = <<>> /\ Requirement.min_years = None

(***************************************************************************)
(* The experience sub-score                                                 *)
(***************************************************************************)
\* the candidate's years minus the posting's min_years
YearsOver == user_experience_years - Requirement.min_years.val

\* the experience sub-score the years alone give
ByYears ==
    IF 0 <= YearsOver /\ YearsOver <= 2 THEN 10000
    ELSE IF 3 <= YearsOver /\ YearsOver <= 5 THEN 8000
    ELSE IF YearsOver > 5 THEN 6000
    ELSE IF YearsOver = -1 THEN 7000
    ELSE IF YearsOver = -2 THEN 5000
    ELSE 3000

\* C19: whenever the posting's min_years is known, experience_match is set
\* by the candidate's years and min_years alone: 100 when 0 to 2 years
\* over, 80 when 3 to 5 over, 60 when more than 5 over, 70 when 1 year
\* short, 50 when 2 short, 30 when 3 or more short.
C19_YearsBasedWhenKnown ==
    Returned /\ Requirement.min_years # None =>
        compatibility.val.breakdown.experience_match = ByYears

\* the same for a min_years that is not 0
C19_YearsBasedWhenPositive ==
    Returned /\ Requirement.min_years # None /\ Requirement.min_years.val > 0 =>
        compatibility.val.breakdown.experience_match = ByYears

\* a min_years over 0 with a level that would give another score: 5 years
\* asked by a junior posting, a candidate of 6 years
C19_PositiveYearsScored ==
    /\ Returned
    /\ Requirement.min_years = PyInt(5)
    /\ Requirement.level = "junior"
    /\ user_experience_years = 6
    /\ compatibility.val.breakdown.experience_match = 10000

\* the candidate's level, from the years
CandidateLevel ==
    IF user_experience_years <= 2 THEN "junior"
    ELSE IF user_experience_years <= 4 THEN "mid"
    ELSE "senior"

\* the cross-table: <<job level, candidate level>> -> sub-score
LevelTable ==
    [pair \in {"junior", "mid", "senior"} \X {"junior", "mid", "senior"} |->
        IF pair[1] = pair[2] THEN 10000
        ELSE IF pair[1] = "junior" THEN 8500
        ELSE IF pair = <<"mid", "senior">> THEN 8000
        ELSE IF pair = <<"mid", "junior">> THEN 6500
        ELSE IF pair = <<"senior", "mid">> THEN 5500
        ELSE 3500]

\* C20: when the posting's min_years is unknown, experience_match follows
\* the level cross-table with the candidate's level from the years (<= 2
\* junior, 3-4 mid, >= 5 senior): equal levels 100; job junior with
\* candidate mid or senior 85; job mid with candidate senior 80; job mid
\* with candidate junior 65; job senior with candidate mid 55; job senior
\* with candidate junior 35.
C20_LevelTableWhenYearsUnknown ==
    Returned /\ Requirement.min_years = None =>
        compatibility.val.breakdown.experience_match
            = LevelTable[<<Requirement.level, CandidateLevel>>]

\* a senior posting without years and a candidate of 3 years: 55
C20_Witness ==
    /\ Returned
    /\ Requirement.min_years = None
    /\ Requirement.level = "senior"
    /\ user_experience_years = 3
    /\ compatibility.val.breakdown.experience_match = 5500

\* every pair of the table is met
C20_WitnessJuniorJob ==
    Returned /\ Requirement.min_years = None /\ Requirement.level = "junior"
    /\ user_experience_years = 5
    /\ compatibility.val.breakdown.experience_match = 8500

C20_WitnessMidJob ==
    Returned /\ Requirement.min_years = None /\ Requirement.level = "mid"
    /\ user_experience_years = 7
    /\ compatibility.val.breakdown.experience_match = 8000

(***************************************************************************)
(* The skill extractor                                                      *)
(***************************************************************************)
\* the highlight sections of the scored posting
Highlights ==
    IF Truthy(Get(ScoredJob, "job_highlights")) THEN ScoredJob.job_highlights.val
    ELSE <<>>

\* the items of the sections whose title is, or is not, "Qualifications"
ItemsOfSections(qualifications) ==
    UNION {{Highlights[n].val.items.val[k].val : k \in DOMAIN Highlights[n].val.items.val} :
              n \in {m \in DOMAIN Highlights :
                         /\ (Get(Highlights[m].val, "title") = Str(Qualifications))
                                = qualifications
                         /\ Truthy(Get(Highlights[m].val, "items"))}}

\* the texts the claim lets extract_skills_from_job read
SkillSources ==
    {ScoredJob[key].val : key \in {k \in {"title", "description"} : Truthy(Get(ScoredJob, k))}}
    \cup ItemsOfSections(TRUE)

\* the text fields it must not read
OtherFields ==
    {ScoredJob[key].val :
        key \in {k \in {"company_name", "via", "location"} : Truthy(Get(ScoredJob, k))}}
    \cup ItemsOfSections(FALSE)

\* the term, or for "c++" one of its spellings, occurs in one of the texts
OccursIn(term, texts) ==
    \E text \in texts :
        \E spelling \in (IF term = Cpp THEN CppTerms ELSE {term}) :
            Contains(Lower(text), spelling)

Vocabulary == {tech_keywords[n] : n \in DOMAIN tech_keywords}

\* C22: every element extract_skills_from_job returns is a lower-cased term
\* of the vocabulary (or "c++") that occurs in the title, the description
\* or an item of a section titled exactly "Qualifications"; a term that
\* occurs only in another section or field is not returned.
C22_SkillsFromTitleDescriptionQualifications ==
    Returned =>
        \A skill \in compatibility.val.required_skills :
            /\ skill \in Vocabulary \cup {Cpp}
            /\ skill = Lower(skill)
            /\ OccursIn(skill, SkillSources)

\* a term of the vocabulary stands in another section only and is not
\* returned, one of a Qualifications item is
C22_Witness ==
    /\ Returned
    /\ \E term \in Vocabulary :
          /\ OccursIn(term, ItemsOfSections(FALSE))
          /\ ~OccursIn(term, SkillSources)
          /\ term \notin compatibility.val.required_skills
    /\ \E term \in compatibility.val.required_skills :
          OccursIn(term, ItemsOfSections(TRUE))

\* terms of the vocabulary stand in other fields only
C22_WitnessOtherFields ==
    /\ Returned
    /\ \E term \in Vocabulary : OccursIn(term, OtherFields \ ItemsOfSections(FALSE))
    /\ compatibility.val.required_skills = {}

(***************************************************************************)
(* The location, the additional and the total score                         *)
(***************************************************************************)
\* both locations are given
BothLocated == Truthy(user_location) /\ Truthy(Get(ScoredJob, "location"))

\* either lower-cased location is a substring of the other
WholeLocationMatch ==
    \/ Contains(Lower(ScoredJob.location.val), Lower(user_location.val))
    \/ Contains(Lower(user_location.val), Lower(ScoredJob.location.val))

\* a comma-separated token of the candidate's location is a substring of
\* the posting's
TokenLocationMatch ==
    \E n \in DOMAIN Split(Lower(user_location.val), ",") :
        Contains(Lower(ScoredJob.location.val), Split(Lower(user_location.val), ",")[n])

\* the posting's location or description contains "remote"
MentionsRemote ==
    \/ Contains(Lower(ScoredJob.location.val), Remote)
    \/ Contains(Lower(GetOr(ScoredJob, "description", Str(<<>>)).val), Remote)

\* C21: location_match is 50 if the candidate's or the posting's location
\* is missing; otherwise 100 if either lower-cased location is a substring
\* of the other; otherwise 70 if a comma-separated token of the candidate's
\* location is a substring of the posting's; otherwise 100 if the posting's
\* location or description contains "remote"; otherwise 50.
C21_LocationChain ==
    Returned =>
        compatibility.val.breakdown.location_match =
            IF ~BothLocated THEN 5000
            ELSE IF WholeLocationMatch THEN 10000
            ELSE IF TokenLocationMatch THEN 7000
            ELSE IF MentionsRemote THEN 10000
            ELSE 5000

\* only a token matches, although the posting mentions remote: 70
C21_Witness ==
    /\ Returned
    /\ BothLocated
    /\ ~WholeLocationMatch
    /\ TokenLocationMatch
    /\ MentionsRemote
    /\ compatibility.val.breakdown.location_match = 7000

\* the other links of the chain
C21_WitnessWhole ==
    Returned /\ BothLocated /\ WholeLocationMatch /\ TokenLocationMatch
    /\ compatibility.val.breakdown.location_match = 10000

C21_WitnessRemoteDescription ==
    Returned /\ BothLocated /\ ~WholeLocationMatch /\ ~TokenLocationMatch
    /\ ~Contains(Lower(ScoredJob.location.val), Remote)
    /\ compatibility.val.breakdown.location_match = 10000

C21_WitnessNoMatch ==
    Returned /\ BothLocated /\ ~MentionsRemote
    /\ compatibility.val.breakdown.location_match = 5000

C21_WitnessMissing ==
    Returned /\ user_location # None /\ ~Truthy(Get(ScoredJob, "location"))
    /\ compatibility.val.breakdown.location_match = 5000

\* detected_extensions of the scored posting carries a value under the key
Carries(key) ==
    /\ "detected_extensions" \in DOMAIN ScoredJob
    /\ Truthy(Get(ScoredJob.detected_extensions.val, key))

\* C23: additional_factors is 50, plus 10 if detected_extensions carries a
\* salary value, plus 5 if it carries a health_insurance value: one of 50,
\* 55, 60, 65, whatever the other inputs.
C23_AdditionalFactors ==
    Returned =>
        /\ compatibility.val.breakdown.additional_factors =
               5000 + (IF Carries("salary") THEN 1000 ELSE 0)
                    + (IF Carries("health_insurance") THEN 500 ELSE 0)
        /\ compatibility.val.breakdown.additional_factors \in {5000, 5500, 6000, 6500}

\* both values are carried: 65
C23_Witness ==
    /\ Returned
    /\ Carries("salary")
    /\ Carries("health_insurance")
    /\ compatibility.val.breakdown.additional_factors = 6500

\* a salary key with a null value adds nothing
C23_WitnessNullSalary ==
    /\ Returned
    /\ "detected_extensions" \in DOMAIN ScoredJob
    /\ "salary" \in DOMAIN ScoredJob.detected_extensions.val
    /\ compatibility.val.breakdown.additional_factors = 5000

C23_WitnessSalaryOnly ==
    Returned /\ compatibility.val.breakdown.additional_factors = 6000

C23_WitnessInsuranceOnly ==
    Returned /\ compatibility.val.breakdown.additional_factors = 5500

\* C28: total_score lies between 30 (skill 0, experience 30, location 50,
\* education 100, additional 50) and 94.75 (skill 100, experience 100,
\* location 100, education 100, additional 65): it stays within 0-100 and
\* never reaches 100.
C28_TotalBetween30And9475 ==
    Returned =>
        /\ compatibility.val.total_score >= 3000
        /\ compatibility.val.total_score <= 9475

\* the highest score: every sub-score at its highest
C28_Witness ==
    /\ Returned
    /\ compatibility.val.total_score = 9475
    /\ compatibility.val.breakdown =
           [skill_match |-> 10000, experience_match |-> 10000, location_match |-> 10000,
            education_match |-> 10000, additional_factors |-> 6500]

\* the lowest score: every sub-score at its lowest
C28_WitnessLowest ==
    /\ Returned
    /\ compatibility.val.total_score = 3000
    /\ compatibility.val.breakdown =
           [skill_match |-> 0, experience_match |-> 3000, location_match |-> 5000,
            education_match |-> 10000, additional_factors |-> 5000]

(***************************************************************************)
(* The explanation generator                                                *)
(***************************************************************************)
\* the lines generate_match_explanation returned for the k-th ranked posting
Lines(k) == matched_jobs.val[k].match_explanations

\* the tier of a score given in hundredths
Tier(score) ==
    IF score >= 8000 THEN "Strong match"
    ELSE IF score >= 6000 THEN "Good match"
    ELSE IF score >= 4000 THEN "Moderate match"
    ELSE "Weak match"

\* C24: the first line of generate_match_explanation is the tier label of
\* total_score ("Strong match" from 80, "Good match" from 60, "Moderate
\* match" from 40, else "Weak match") together with that score.
C24_FirstLineIsTier ==
    RankedReturned =>
        \A k \in DOMAIN matched_jobs.val :
            /\ Lines(k)[1].line = "overall"
            /\ Lines(k)[1].score = matched_jobs.val[k].compatibility_score
            /\ Lines(k)[1].label = Tier(matched_jobs.val[k].compatibility_score)

\* a score of exactly 60 is labelled "Good match"
C24_Witness ==
    /\ RankedReturned
    /\ \E k \in DOMAIN matched_jobs.val :
          /\ matched_jobs.val[k].compatibility_score = 6000
          /\ Lines(k)[1].label = "Good match"

\* the other tiers, a score of exactly 40 among them
C24_WitnessStrong ==
    RankedReturned /\ \E k \in DOMAIN matched_jobs.val : Lines(k)[1].label = "Strong match"

C24_WitnessModerate ==
    /\ RankedReturned
    /\ \E k \in DOMAIN matched_jobs.val :
          /\ matched_jobs.val[k].compatibility_score = 4000
          /\ Lines(k)[1].label = "Moderate match"

C24_WitnessWeak ==
    RankedReturned /\ \E k \in DOMAIN matched_jobs.val : Lines(k)[1].label = "Weak match"

\* the place of a line in the fixed order
LineRank ==
    [overall |-> 1, skills |-> 2, missing |-> 3, experience |-> 4, location |-> 5]

\* the positions of the lines of this kind among the k-th posting's lines
LinesOfKind(k, kind) == {n \in DOMAIN Lines(k) : Lines(k)[n].line = kind}

\* C25: the lines come in the order tier label, skill count, missing
\* skills, experience, location, each at most once; the missing-skills
\* line is there exactly when missing_skills is not empty and names at most
\* 3 of them; the skill-count line names at most 5 of the matching skills;
\* the location line is there exactly when location_match >= 70.
C25_LinesInOrder ==
    RankedReturned =>
        \A k \in DOMAIN matched_jobs.val :
            LET entry == matched_jobs.val[k]
            IN  /\ Lines(k)[1].line = "overall"
                /\ \A n, m \in DOMAIN Lines(k) :
                       n < m => LineRank[Lines(k)[n].line] < LineRank[Lines(k)[m].line]
                /\ (LinesOfKind(k, "missing") # {}) = (entry.missing_skills # {})
                /\ \A n \in LinesOfKind(k, "missing") :
                       /\ Lines(k)[n].named \subseteq entry.missing_skills
                       /\ Cardinality(Lines(k)[n].named) <= 3
                /\ \A n \in LinesOfKind(k, "skills") :
                       /\ Lines(k)[n].named \subseteq entry.matching_skills
                       /\ Cardinality(Lines(k)[n].named) <= 5
                /\ (LinesOfKind(k, "location") # {})
                       = (entry.score_breakdown.location_match >= 7000)

\* all five lines for a posting with six matching skills, five of them named
C25_Witness ==
    /\ RankedReturned
    /\ \E k \in DOMAIN matched_jobs.val :
          /\ Len(Lines(k)) = 5
          /\ Cardinality(matched_jobs.val[k].matching_skills) = 6
          /\ Cardinality(Lines(k)[2].named) = 5
          /\ Lines(k)[3].line = "missing"
          /\ Lines(k)[5].line = "location"

\* seven skills are missing, three are named, no location line
C25_WitnessMissing ==
    /\ RankedReturned
    /\ \E k \in DOMAIN matched_jobs.val :
          /\ Cardinality(matched_jobs.val[k].missing_skills) = 7
          /\ Cardinality(Lines(k)[3].named) = 3
          /\ LinesOfKind(k, "location") = {}

\* no skill line and no missing line
C25_WitnessShort ==
    /\ RankedReturned
    /\ \E k \in DOMAIN matched_jobs.val :
          /\ Len(Lines(k)) = 2
          /\ Lines(k)[2].line = "experience"

\* the lines generate_match_explanation gives for the scored posting and the
\* dict calculate_compatibility_score returned, as it was returned
LinesOfReturned == generate_match_explanation(ScoredJob, compatibility.val)

\* C26 as stated: when generate_match_explanation is applied to a job and
\* the result calculate_compatibility_score returned for a candidate, and
\* the posting has no known min_years, the experience line states the
\* candidate's level derived from the candidate's years, the level the
\* scorer used.
C26_ReturnedResultStatesLevel ==
    Returned /\ Requirement.min_years = None =>
        \E n \in DOMAIN LinesOfReturned :
            /\ LinesOfReturned[n].line = "experience"
            /\ LinesOfReturned[n].user_level = UserLevel(user_experience_years)

\* C26 amended: for a posting without known min_years, the experience line that
\* match_jobs_to_user gets from generate_match_explanation states the
\* candidate's level derived from the candidate's years (<= 2 junior, <= 4
\* mid, else senior), and experience_match is the table's value for that
\* level.
C26_ExperienceLineStatesScorersLevel ==
    RankedReturned =>
        \A k \in DOMAIN matched_jobs.val :
            LET entry == matched_jobs.val[k]
            IN  entry.experience_requirement.min_years = None =>
                    /\ LinesOfKind(k, "experience") # {}
                    /\ \A n \in LinesOfKind(k, "experience") :
                           /\ Lines(k)[n].user_years = user_experience_years
                           /\ Lines(k)[n].user_level = CandidateLevel
                           /\ Lines(k)[n].user_level = UserLevel(user_experience_years)
                           /\ Lines(k)[n].level = entry.experience_requirement.level
                           /\ entry.score_breakdown.experience_match
                                  = LevelTable[<<Lines(k)[n].level, Lines(k)[n].user_level>>]

\* a candidate of 3 years and a senior posting without years: "mid", 55
C26_Witness ==
    /\ RankedReturned
    /\ user_experience_years = 3
    /\ \E k \in DOMAIN matched_jobs.val :
          /\ matched_jobs.val[k].experience_requirement = [min_years |-> None,
                 max_years |-> None, level |-> "senior"]
          /\ \E n \in LinesOfKind(k, "experience") :
                /\ Lines(k)[n].user_level = "mid"
                /\ Lines(k)[n].match = 5500

\* a candidate of 7 years: "senior"
C26_WitnessSenior ==
    /\ RankedReturned
    /\ user_experience_years = 7
    /\ \E k \in DOMAIN matched_jobs.val :
          /\ matched_jobs.val[k].experience_requirement.min_years = None
          /\ \E n \in LinesOfKind(k, "experience") : Lines(k)[n].user_level = "senior"

(***************************************************************************)
(* The discovery pipeline: postings over several queries                    *)
(***************************************************************************)
\* the postings of the fetches that did not raise, in fetch order
RECURSIVE FetchOrder(_)
FetchOrder(responses) ==
    IF responses = <<>> THEN <<>>
    ELSE (IF IsRaised(Head(responses)) THEN <<>> ELSE Head(responses).val)
         \o FetchOrder(Tail(responses))

\* where a job_id occurs first in fetch order
FirstIn(all, job_id) ==
    CHOOSE i \in DOMAIN all :
        /\ Get(all[i], "job_id") = job_id
        /\ \A k \in 1..(i - 1) : Get(all[k], "job_id") # job_id

\* C27: with use_api, the list discover_and_match_jobs assembles over the
\* queries holds no two postings of the same job_id; it holds, for every
\* job_id fetched, the posting that came first in fetch order, in fetch
\* order (postings without job_id are not kept); a query whose fetch raised
\* takes nothing away and does not stop the later queries.
C27_FirstOccurrenceKept ==
    pc = "discovered" /\ use_api =>
        LET all == FetchOrder(fetched)
        IN  /\ \A i, k \in DOMAIN found_jobs :
                  i # k => found_jobs[i].job_id # found_jobs[k].job_id
            /\ {found_jobs[i].job_id : i \in DOMAIN found_jobs}
                  = {Get(all[i], "job_id") : i \in {n \in DOMAIN all : Truthy(Get(all[n], "job_id"))}}
            /\ \A i \in DOMAIN found_jobs :
                  found_jobs[i] = all[FirstIn(all, found_jobs[i].job_id)]
            /\ \A i, k \in DOMAIN found_jobs :
                  i < k => FirstIn(all, found_jobs[i].job_id)
                               < FirstIn(all, found_jobs[k].job_id)

\* two queries answered; a job_id comes with two different postings, the
\* first is kept, the second dropped
C27_Witness ==
    /\ pc = "discovered"
    /\ use_api
    /\ Len(fetched) = QueryLimit
    /\ \A n \in DOMAIN fetched : ~IsRaised(fetched[n])
    /\ Len(found_jobs) >= 2
    /\ \E i \in DOMAIN FetchOrder(fetched) :
          /\ Truthy(Get(FetchOrder(fetched)[i], "job_id"))
          /\ \A k \in DOMAIN found_jobs : found_jobs[k] # FetchOrder(fetched)[i]

\* the first fetch raised, the postings of the second are kept
C27_WitnessRaisedThenKept ==
    /\ pc = "discovered"
    /\ use_api
    /\ Len(fetched) = QueryLimit
    /\ IsRaised(fetched[1])
    /\ found_jobs # <<>>

\* the second fetch raised, the postings of the first are kept
C27_WitnessKeptThenRaised ==
    /\ pc = "discovered"
    /\ use_api
    /\ Len(fetched) = QueryLimit
    /\ IsRaised(fetched[2])
    /\ found_jobs # <<>>

\* the postings discover_and_match_jobs hands to match_jobs_to_user
ScoredPostings == Take(found_jobs, JobLimit)

\* how many elements of a list of dicts have this job_id
WithId(list, job_id) == Cardinality({i \in DOMAIN list : Get(list[i], "job_id") = job_id})

\* C29: in every result of discover_and_match_jobs, high_match_count +
\* medium_match_count + low_match_count = the length of matched_jobs =
\* total_jobs_found, and matched_jobs holds one entry for each of the
\* postings scored, at most 4.
C29_BucketsPartition ==
    Discovered =>
        LET matched == discovery.val.matched_jobs
            summary == discovery.val.summary
        IN  /\ summary.high_match_count + summary.medium_match_count
                   + summary.low_match_count = Len(matched)
            /\ Len(matched) = discovery.val.total_jobs_found
            /\ Len(matched) = Len(ScoredPostings)
            /\ Len(matched) <= JobLimit
            /\ \A i \in DOMAIN ScoredPostings :
                  WithId(matched, Get(ScoredPostings[i], "job_id"))
                      = WithId(ScoredPostings, Get(ScoredPostings[i], "job_id"))

\* five postings were found, four are scored and fall into two buckets,
\* the low one among them
C29_Witness ==
    /\ Discovered
    /\ Len(found_jobs) = 5
    /\ Len(discovery.val.matched_jobs) = 4
    /\ discovery.val.total_jobs_found = 4
    /\ discovery.val.summary.low_match_count > 0
    /\ discovery.val.summary.low_match_count < 4

(***************************************************************************)
(* The job service: the except branch                                      *)
(***************************************************************************)
\* the LLM was called and the call raised, or its content is not JSON
CallOrParsingFailed ==
    /\ pc = "scored_by_llm"
    /\ llm_response # None
    /\ IsRaised(llm_response) \/ IsRaised(JsonLoads(llm_response))

\* the returned list has one entry per posting, in the order of the
\* postings, each with the score 0 and "Scoring unavailable"
UnscoredInInputOrder ==
    /\ ~IsRaised(scored_jobs)
    /\ Len(scored_jobs.val) = Len(jobs)
    /\ \A k \in DOMAIN jobs :
           /\ scored_jobs.val[k].job_id = Get(jobs[k], "job_id")
           /\ scored_jobs.val[k].title = Get(jobs[k], "title")
           /\ scored_jobs.val[k].compatibility_score = PyInt(0)
           /\ scored_jobs.val[k].match_explanation = Str(ScoringUnavailable)

\* C30 as stated: when the LLM call or the parsing of its response fails,
\* score_jobs_with_groq does not raise: it returns one entry per input job,
\* in input order, each with compatibility_score 0 and match_explanation
\* "Scoring unavailable".
C30_FallbackNeverRaises == CallOrParsingFailed => UnscoredInInputOrder

\* what the code does give: the unscored list whenever the first apply
\* option of no posting is null
C30_FallbackWhenApplyOptionsAreDicts ==
    CallOrParsingFailed /\ (\A n \in DOMAIN jobs : ~IsRaised(ApplyLink(jobs[n])))
        => UnscoredInInputOrder

\* the call raised and two postings came back unscored in their own order
C30_WitnessFallback ==
    /\ CallOrParsingFailed
    /\ IsRaised(llm_response)
    /\ Len(jobs) >= 2
    /\ jobs[1] # jobs[2]
    /\ UnscoredInInputOrder

\* the content was not JSON and the except branch raised AttributeError
C30_WitnessRaised ==
    /\ CallOrParsingFailed
    /\ ~IsRaised(llm_response)
    /\ scored_jobs = Raised("AttributeError")

====
